---- MODULE Spec2Model ----
(***************************************************************************)
(* CSVViewer: the hybrid storage engine (server/src/db-manager.ts) and the *)
(* CSV routes over it (server/src/routes/csv.ts).                          *)
(*                                                                         *)
(* Strings that the code encodes and decodes (CSV fields, row_data) are    *)
(* sequences of one-character strings, so that JSON.stringify / JSON.parse *)
(* are computed character by character.  Sizes handed to the selector are  *)
(* in hundredths of a megabyte: the upload path produces them with         *)
(* toFixed(2), the other callers pass the literals 0 and 1000.             *)
(***************************************************************************)
EXTENDS Integers, Sequences, FiniteSets, TLC

VARIABLES
  sqliteFile,    \* data/db.sqlite: the exported image of the SQL.js database
  csvFilesJson,  \* data/csv_files.json: file id -> csv_files record
  dataFiles,     \* data/csv_data_<id>.jsonl: file id -> sequence of lines
  uploadsDir,    \* uploads/: stored filename -> the parsed records of that file
  clock,         \* Date.now() of multer's filename callback, one tick per upload
  up,            \* the upload request in flight, with its store instance
  reg,           \* the registration in flight, with its store instance
  rowScan,       \* the findRowInFile call in flight
  resp           \* the value the last operation returned to its caller

vars == <<sqliteFile, csvFilesJson, dataFiles, uploadsDir, clock, up, reg, rowScan, resp>>

(***************************************************************************)
(* Bounds of the model.                                                    *)
(***************************************************************************)
NumUsers == 2
MaxUploads == 3
MaxSizeMB == 120
ByteSpread == 70
MaxPage == 2
MaxPageSize == 5
MaxRowNumber == 4
MaxRegistrations == 1
MaxAccountUploads == 1

UserIds == 1..NumUsers

(***************************************************************************)
(* Program constants.  maxMemoryRows (10000000 in the source) and          *)
(* batchSize (100000 in the source) are scaled down so that an upload of   *)
(* a header and four records fills two batches and reaches the cache       *)
(* ceiling.                                                                *)
(***************************************************************************)
maxMemoryRows == 3
batchSize == 2
maxLoadRows == 100
ThresholdMB == 50
BytesPerMB == 1048576

SQLITE == "sqlite"
FILEDB == "filedb"

(***************************************************************************)
(* Small maps (JS Map, SQL table keyed by primary key).                    *)
(***************************************************************************)
EmptyMap == [x \in {} |-> x]

MapPut(m, k, v) == [x \in (DOMAIN m) \cup {k} |-> IF x = k THEN v ELSE m[x]]

MapDel(m, k) == [x \in (DOMAIN m) \ {k} |-> m[x]]

Has(m, k) == k \in DOMAIN m

RECURSIVE Concat(_)
Concat(ss) == IF ss = <<>> THEN <<>> ELSE Head(ss) \o Concat(Tail(ss))

RECURSIVE Join(_, _)
Join(ss, sep) ==
  IF ss = <<>> THEN <<>>
  ELSE IF Len(ss) = 1 THEN ss[1]
  ELSE ss[1] \o sep \o Join(Tail(ss), sep)

(***************************************************************************)
(* JSON.stringify of an array of strings.                                  *)
(***************************************************************************)
QuoteChar(c) ==
  IF c = "\"" THEN <<"\\", "\"">>
  ELSE IF c = "\\" THEN <<"\\", "\\">>
  ELSE IF c = "\n" THEN <<"\\", "n">>
  ELSE <<c>>

QuoteString(f) == <<"\"">> \o Concat([i \in 1..Len(f) |-> QuoteChar(f[i])]) \o <<"\"">>

JSONstringify(fields) ==
  <<"[">> \o Join([i \in 1..Len(fields) |-> QuoteString(fields[i])], <<",">>) \o <<"]">>

(***************************************************************************)
(* JSON.parse of a text that is an array of strings; anything else is a    *)
(* SyntaxError (ok = FALSE).                                               *)
(***************************************************************************)
ParseFail == [ok |-> FALSE, val |-> <<>>, next |-> 0]

RECURSIVE ParseString(_, _, _)
ParseString(s, i, acc) ==
  IF i > Len(s) THEN ParseFail
  ELSE IF s[i] = "\"" THEN [ok |-> TRUE, val |-> acc, next |-> i + 1]
  ELSE IF s[i] = "\n" THEN ParseFail
  ELSE IF s[i] = "\\" THEN
    IF i + 1 > Len(s) THEN ParseFail
    ELSE IF s[i + 1] = "n" THEN ParseString(s, i + 2, Append(acc, "\n"))
    ELSE IF s[i + 1] \in {"\"", "\\", "/"} THEN ParseString(s, i + 2, Append(acc, s[i + 1]))
    ELSE ParseFail
  ELSE ParseString(s, i + 1, Append(acc, s[i]))

RECURSIVE ParseElements(_, _, _)
ParseElements(s, i, acc) ==
  IF i > Len(s) \/ s[i] # "\"" THEN ParseFail
  ELSE LET e == ParseString(s, i + 1, <<>>) IN
    IF ~e.ok \/ e.next > Len(s) THEN ParseFail
    ELSE IF s[e.next] = "," THEN ParseElements(s, e.next + 1, Append(acc, e.val))
    ELSE IF s[e.next] = "]" /\ e.next = Len(s)
      THEN [ok |-> TRUE, val |-> Append(acc, e.val), next |-> e.next + 1]
    ELSE ParseFail

JSONparse(s) ==
  IF Len(s) < 2 \/ s[1] # "[" THEN ParseFail
  ELSE IF Len(s) = 2 /\ s[2] = "]" THEN [ok |-> TRUE, val |-> <<>>, next |-> 3]
  ELSE ParseElements(s, 2, <<>>)

(***************************************************************************)
(* The legacy fallback of the readers: row_data.split(',').map(trim).      *)
(***************************************************************************)
IsSpace(c) == c \in {" ", "\n"}

RECURSIVE TrimLeft(_)
TrimLeft(s) == IF s # <<>> /\ IsSpace(Head(s)) THEN TrimLeft(Tail(s)) ELSE s

RECURSIVE TrimRight(_)
TrimRight(s) ==
  IF s # <<>> /\ IsSpace(s[Len(s)]) THEN TrimRight(SubSeq(s, 1, Len(s) - 1)) ELSE s

Trim(s) == TrimRight(TrimLeft(s))

RECURSIVE SplitComma(_, _)
SplitComma(s, cur) ==
  IF s = <<>> THEN <<cur>>
  ELSE IF Head(s) = "," THEN <<cur>> \o SplitComma(Tail(s), <<>>)
  ELSE SplitComma(Tail(s), Append(cur, Head(s)))

SplitTrim(s) == LET parts == SplitComma(s, <<>>) IN [i \in 1..Len(parts) |-> Trim(parts[i])]

parseRowData(row_data) ==
  LET p == JSONparse(row_data) IN IF p.ok THEN p.val ELSE SplitTrim(row_data)

(***************************************************************************)
(* Storage Selector.  fileSizeMB is in hundredths of a megabyte.           *)
(***************************************************************************)
toFixed2(bytes) ==
  (bytes \div BytesPerMB) * 100
    + (((bytes % BytesPerMB) * 100 + (BytesPerMB \div 2)) \div BytesPerMB)

selectDatabaseStrict(fileSizeMB) == IF fileSizeMB < ThresholdMB * 100 THEN SQLITE ELSE FILEDB

selectDatabase(fileSizeMB) == IF fileSizeMB <= ThresholdMB * 100 THEN SQLITE ELSE FILEDB

\* POST /upload hands parseFloat(fileSizeMB), the size formatted with toFixed(2)
uploadDbType(bytes) == selectDatabase(toFixed2(bytes))

(***************************************************************************)
(* Record Store: the SQL.js database.  csv_files is keyed by its primary   *)
(* key, csv_data is the table in rowid order, seq is sqlite_sequence for   *)
(* csv_files (AUTOINCREMENT never reuses an id).  users is keyed by its    *)
(* primary key and userSeq is its sqlite_sequence; a username is a number. *)
(***************************************************************************)
EmptyDb ==
  [csv_files |-> EmptyMap, csv_data |-> <<>>, seq |-> 0, users |-> EmptyMap, userSeq |-> 0]

User(id, username, isAdmin) == [id |-> id, username |-> username, is_admin |-> isAdmin]

\* an INSERT INTO users on a table whose username is not UNIQUE
sqlInsertUserNotUnique(db, username) ==
  LET id == db.userSeq + 1 IN
  <<[db EXCEPT !.users = MapPut(@, id, User(id, username, 0)), !.userSeq = id]>>

\* INSERT INTO users (username, password) VALUES (?, ?): username is UNIQUE, and
\* the statement that violates it throws (no value) and changes nothing
sqlInsertUser(db, username) ==
  IF \E i \in DOMAIN db.users : db.users[i].username = username THEN <<>>
  ELSE LET id == db.userSeq + 1 IN
       <<[db EXCEPT !.users = MapPut(@, id, User(id, username, 0)), !.userSeq = id]>>

\* SELECT ... FROM users WHERE id = ?
sqlGetUserById(db, userId) == IF Has(db.users, userId) THEN <<db.users[userId]>> ELSE <<>>

\* SELECT id FROM users WHERE username = ?
sqlGetUserByName(db, username) ==
  LET ids == {i \in DOMAIN db.users : db.users[i].username = username} IN
  IF ids = {} THEN <<>> ELSE <<db.users[CHOOSE i \in ids : TRUE]>>

\* DELETE FROM users WHERE id = ? (foreign keys are not enforced: no cascade)
sqlDeleteUser(db, userId) == [db EXCEPT !.users = MapDel(@, userId)]

\* DELETE FROM csv_files WHERE user_id = ?
sqlDeleteFilesOfUser(db, userId) ==
  [db EXCEPT !.csv_files =
     [i \in {j \in DOMAIN db.csv_files : db.csv_files[j].user_id # userId} |-> db.csv_files[i]]]

\* DELETE FROM csv_data WHERE file_id = ?, for each id of the set in turn
sqlDeleteDataOfFiles(db, ids) ==
  [db EXCEPT !.csv_data = SelectSeq(@, LAMBDA r : r.file_id \notin ids)]

Row(fileId, rowNumber, rowData, isHeader) ==
  [file_id |-> fileId, row_number |-> rowNumber, row_data |-> rowData, is_header |-> isHeader]

FileRec(id, userId, filename) ==
  [id |-> id, user_id |-> userId, filename |-> filename, row_count |-> 0]

sqlInsertFile(db, userId, filename) ==
  LET id == db.seq + 1 IN
  [db EXCEPT !.csv_files = MapPut(@, id, FileRec(id, userId, filename)), !.seq = id]

sqlInsertData(db, row) == [db EXCEPT !.csv_data = Append(@, row)]

sqlUpdateRowCount(db, rowCount, fileId) ==
  IF Has(db.csv_files, fileId)
  THEN [db EXCEPT !.csv_files[fileId].row_count = rowCount]
  ELSE db

sqlDeleteData(db, fileId) ==
  [db EXCEPT !.csv_data = SelectSeq(@, LAMBDA r : r.file_id # fileId)]

sqlDeleteFile(db, fileId) == [db EXCEPT !.csv_files = MapDel(@, fileId)]

\* SELECT * FROM csv_files WHERE id = ? AND user_id = ?
sqlGetFileOfUser(db, fileId, userId) ==
  IF Has(db.csv_files, fileId) /\ db.csv_files[fileId].user_id = userId
  THEN <<db.csv_files[fileId]>> ELSE <<>>

\* SELECT filename FROM csv_files WHERE id = ?
sqlGetFileById(db, fileId) ==
  IF Has(db.csv_files, fileId) THEN <<db.csv_files[fileId]>> ELSE <<>>

\* SELECT id FROM csv_files WHERE filename = ? ORDER BY id DESC LIMIT 1
sqlGetIdByFilename(db, filename) ==
  LET ids == {i \in DOMAIN db.csv_files : db.csv_files[i].filename = filename} IN
  IF ids = {} THEN <<>> ELSE <<CHOOSE i \in ids : \A j \in ids : j <= i>>

\* SELECT ... FROM csv_files WHERE user_id = ?
sqlFilesOfUser(db, userId) ==
  {db.csv_files[i] : i \in {j \in DOMAIN db.csv_files : db.csv_files[j].user_id = userId}}

sqlRowsOf(db, fileId, isHeader) ==
  SelectSeq(db.csv_data, LAMBDA r : r.file_id = fileId /\ r.is_header = isHeader)

\* SELECT row_data FROM csv_data WHERE file_id = ? AND is_header = 1
sqlGetHeader(db, fileId) ==
  LET hs == sqlRowsOf(db, fileId, 1) IN IF hs = <<>> THEN <<>> ELSE <<hs[1]>>

\* SELECT row_data FROM csv_data WHERE file_id = ? AND row_number = ?
sqlGetRow(db, fileId, rowNumber) ==
  LET rs == SelectSeq(db.csv_data, LAMBDA r : r.file_id = fileId /\ r.row_number = rowNumber) IN
  IF rs = <<>> THEN <<>> ELSE <<rs[1]>>

\* SELECT COUNT(*) as total FROM csv_data WHERE file_id = ? AND is_header = 0
sqlCount(db, fileId) == Len(sqlRowsOf(db, fileId, 0))

RECURSIVE InsertSorted(_, _)
InsertSorted(sorted, r) ==
  IF sorted = <<>> THEN <<r>>
  ELSE IF r.row_number < Head(sorted).row_number THEN <<r>> \o sorted
  ELSE <<Head(sorted)>> \o InsertSorted(Tail(sorted), r)

RECURSIVE SortByRowNumber(_)
SortByRowNumber(rs) ==
  IF rs = <<>> THEN <<>>
  ELSE InsertSorted(SortByRowNumber(SubSeq(rs, 1, Len(rs) - 1)), rs[Len(rs)])

Slice(rs, offset, limit) ==
  SubSeq(rs, offset + 1, IF offset + limit < Len(rs) THEN offset + limit ELSE Len(rs))

\* SELECT row_number, row_data FROM csv_data WHERE file_id = ? AND is_header = 0
\*   ORDER BY row_number LIMIT ? OFFSET ?
sqlPage(db, fileId, limit, offset) ==
  Slice(SortByRowNumber(sqlRowsOf(db, fileId, 0)), offset, limit)

(***************************************************************************)
(* Streamed File Store: one FileDatabase instance together with the files  *)
(* of its data directory.  fs = [mem, json, logs]: mem is the instance     *)
(* (csvFiles, csvData, pendingWrites, writeTimer), json is csv_files.json, *)
(* logs the csv_data_<id>.jsonl files.  A log line is the row object that  *)
(* JSON.parse(line) yields.  mem.writeTimer says that this.writeTimer is  *)
(* not null, mem.timerRan that the timeout it holds has run already (the   *)
(* callback was left by an exception before it set the field to null).     *)
(* mem.cleared is a history flag: the instance has cleared a row cache     *)
(* (the warning logged at the memory ceiling).                             *)
(***************************************************************************)
NoInstance ==
  [csvFiles |-> EmptyMap, csvData |-> EmptyMap, pendingWrites |-> EmptyMap, writeTimer |-> FALSE,
   timerRan |-> FALSE, cleared |-> FALSE]

\* FileDatabase.init: loadCsvFiles
fdbInit(json) == [NoInstance EXCEPT !.csvFiles = json]

Store(mem, json, logs) == [mem |-> mem, json |-> json, logs |-> logs]

\* saveCsvFiles: csv_files.json is rewritten from the instance's map
saveCsvFiles(fs) == [fs EXCEPT !.json = fs.mem.csvFiles]

flushCsvData(fs, fileId) ==
  IF ~Has(fs.mem.pendingWrites, fileId) \/ fs.mem.pendingWrites[fileId] = <<>> THEN fs
  ELSE [fs EXCEPT
          !.logs = MapPut(@, fileId,
                     (IF Has(fs.logs, fileId) THEN fs.logs[fileId] ELSE <<>>)
                       \o fs.mem.pendingWrites[fileId]),
          !.mem.pendingWrites = MapDel(@, fileId)]

RECURSIVE FlushAll(_, _)
FlushAll(fs, ids) ==
  IF ids = {} THEN fs
  ELSE LET fid == CHOOSE i \in ids : \A j \in ids : i <= j IN
       FlushAll(flushCsvData(fs, fid), ids \ {fid})

\* FileDatabase.save: flush every pending buffer
fdbSave(fs) == FlushAll(fs, DOMAIN fs.mem.pendingWrites)

\* the setTimeout callback of scheduleFlush
timerCallback(fs) ==
  [FlushAll(fs, DOMAIN fs.mem.pendingWrites) EXCEPT !.mem.writeTimer = FALSE]

\* an append that arms no timer
scheduleFlushUnarmed(fs) == fs

\* the setTimeout callback when fs.appendFileSync throws in the first
\* flushCsvData: pendingWrites.delete and this.writeTimer = null are not
\* reached
timerCallbackThrows(fs) == [fs EXCEPT !.mem.timerRan = TRUE]

\* scheduleFlush: arms the timer of the instance unless it is armed
scheduleFlush(fs) == [fs EXCEPT !.mem.writeTimer = TRUE]

\* a close that clears the instance without saving
fdbCloseUnflushed(fs) == [fs EXCEPT !.mem = NoInstance]

\* FileDatabase.close
fdbClose(fs) == [fdbSave(fs) EXCEPT !.mem = NoInstance]

\* id: this.csvFiles.size + 1
mintId(csvFiles) == Cardinality(DOMAIN csvFiles) + 1

\* run('INSERT INTO csv_files ...')
fdbInsertFile(fs, userId, filename) ==
  LET id == mintId(fs.mem.csvFiles) IN
  saveCsvFiles([fs EXCEPT !.mem.csvFiles = MapPut(@, id, FileRec(id, userId, filename)),
                          !.mem.csvData = MapPut(@, id, EmptyMap)])

\* a cache that keeps its rows at the ceiling and adds the new one
cacheRowUnbounded(fileData, row) == MapPut(fileData, row.row_number, row)

\* the memory ceiling of run('INSERT INTO csv_data ...')
cacheRow(fileData, row) ==
  IF Cardinality(DOMAIN fileData) < maxMemoryRows THEN MapPut(fileData, row.row_number, row)
  ELSE IF Cardinality(DOMAIN fileData) = maxMemoryRows THEN EmptyMap
  ELSE fileData

\* run('INSERT INTO csv_data ...')
fdbInsertData(fs, row) ==
  IF ~Has(fs.mem.csvData, row.file_id) THEN fs
  ELSE scheduleFlush(
         [fs EXCEPT
            !.mem.csvData[row.file_id] = cacheRow(@, row),
            !.mem.cleared = @ \/ Cardinality(DOMAIN fs.mem.csvData[row.file_id]) = maxMemoryRows,
            !.mem.pendingWrites =
               MapPut(@, row.file_id,
                      Append(IF Has(fs.mem.pendingWrites, row.file_id)
                             THEN fs.mem.pendingWrites[row.file_id] ELSE <<>>, row))])

\* run('UPDATE csv_files SET row_count ...')
fdbUpdateRowCount(fs, rowCount, fileId) ==
  IF Has(fs.mem.csvFiles, fileId)
  THEN saveCsvFiles([fs EXCEPT !.mem.csvFiles[fileId].row_count = rowCount])
  ELSE fs

\* a DELETE FROM csv_data that leaves the data file in place
fdbDeleteDataKeepsLog(fs, fileId) ==
  [fs EXCEPT !.mem.csvData = MapDel(@, fileId),
             !.mem.pendingWrites = MapDel(@, fileId)]

\* run('DELETE FROM csv_data ...')
fdbDeleteData(fs, fileId) ==
  [fs EXCEPT !.mem.csvData = MapDel(@, fileId),
             !.mem.pendingWrites = MapDel(@, fileId),
             !.logs = MapDel(@, fileId)]

\* run('DELETE FROM csv_files ...')
fdbDeleteFile(fs, fileId) ==
  saveCsvFiles([fs EXCEPT !.mem.csvFiles = MapDel(@, fileId),
                          !.mem.csvData = MapDel(@, fileId),
                          !.mem.pendingWrites = MapDel(@, fileId)])

\* FileDatabase.get('SELECT ... FROM csv_files WHERE id = ? AND user_id = ?'):
\* only params[0] is read
fdbGetFile(csvFiles, fileId, userId) ==
  IF Has(csvFiles, fileId) THEN <<csvFiles[fileId]>> ELSE <<>>

\* file.filename === params[0] when params[0] is a file id: the stored filename
\* is the string multer has made up and the id is a number
FilenameIsId(filename, fileId) == FALSE

\* FileDatabase.get('SELECT filename FROM csv_files WHERE id = ? AND user_id = ?'):
\* the statement contains 'filename', so params[0] is compared with the
\* filenames
fdbGetFileByFilename(csvFiles, param) ==
  LET hits == {i \in DOMAIN csvFiles : FilenameIsId(csvFiles[i].filename, param)} IN
  IF hits = {} THEN <<>> ELSE <<csvFiles[CHOOSE i \in hits : \A j \in hits : i <= j]>>

\* FileDatabase.all('SELECT ... FROM csv_files WHERE user_id = ?')
fdbFilesOfUser(csvFiles, userId) ==
  {csvFiles[i] : i \in {j \in DOMAIN csvFiles : csvFiles[j].user_id = userId}}

\* the lines of the log of a file
RowsInLog(logs, id) == IF Has(logs, id) THEN logs[id] ELSE <<>>

\* a line of a log on which JSON.parse throws: a torn or corrupt line
MalformedLine == [malformed |-> TRUE]

\* JSON.parse(line) inside a try: the line yields a row object
LineParses(line) == "row_number" \in DOMAIN line

\* the lines of a log that a scan does not skip
WellFormed(lines) == SelectSeq(lines, LineParses)

RECURSIVE LoadLines(_, _)
LoadLines(lines, fileData) ==
  IF lines = <<>> THEN fileData
  ELSE LoadLines(Tail(lines), MapPut(fileData, Head(lines).row_number, Head(lines)))

\* loadCsvDataFromFile: the first maxLoadRows lines that parse, keyed by row_number
loadCsvDataFromFile(lines) ==
  LET rows == WellFormed(lines) IN
  LoadLines(SubSeq(rows, 1, IF Len(rows) < maxLoadRows THEN Len(rows) ELSE maxLoadRows),
            EmptyMap)

\* Array.from(fileData.values()).find(row => row.file_id === fileId && row.is_header === 1)
findHeader(fileData, fileId) ==
  LET ks == {k \in DOMAIN fileData :
               fileData[k].file_id = fileId /\ fileData[k].is_header = 1} IN
  IF ks = {} THEN <<>> ELSE <<fileData[CHOOSE k \in ks : \A j \in ks : k <= j]>>

\* findRowInFile.  scan = [pc, fileId, rowNumber, pos, result] is the promise
\* the function returns together with its read stream: pc is "reading" while
\* the stream delivers lines, "resolved" once resolve has been called and
\* "destroyed" once readStream.destroy() has been called without a resolve;
\* pos is the next line of the log, result the variable of that name.
ScanIdle == [pc |-> "idle", fileId |-> 0, rowNumber |-> 0, pos |-> 1, result |-> <<>>]

\* if (!fs.existsSync(dataFile)) return Promise.resolve(null), else the stream is opened
scanStart(logs, fileId, rowNumber) ==
  [ScanIdle EXCEPT !.pc = IF Has(logs, fileId) THEN "reading" ELSE "resolved",
                   !.fileId = fileId, !.rowNumber = rowNumber]

\* the 'data' handler on one line: a line that does not parse is skipped; on
\* the line with the row number, result is set, the stream is destroyed and
\* the loop is left
scanData(scan, line) ==
  IF LineParses(line) /\ line.row_number = scan.rowNumber
  THEN [scan EXCEPT !.result = <<line>>, !.pc = "destroyed"]
  ELSE [scan EXCEPT !.pos = @ + 1]

\* the 'end' handler: resolve(result)
scanEnd(scan) == [scan EXCEPT !.pc = "resolved"]

\* the 'error' handler: resolve(null)
scanError(scan) == [scan EXCEPT !.pc = "resolved", !.result = <<>>]

\* the stream events of a scan in their order, up to the last one
RECURSIVE runScan(_, _)
runScan(scan, lines) ==
  IF scan.pc # "reading" THEN scan
  ELSE IF scan.pos > Len(lines) THEN scanEnd(scan)
  ELSE runScan(scanData(scan, lines[scan.pos]), lines)

\* what the caller of findRowInFile gets: settled is false when the promise
\* is never resolved
findRowInFile(logs, fileId, rowNumber) ==
  LET scan == runScan(scanStart(logs, fileId, rowNumber),
                      IF Has(logs, fileId) THEN logs[fileId] ELSE <<>>) IN
  [settled |-> scan.pc = "resolved", result |-> IF scan.pc = "resolved" THEN scan.result ELSE <<>>]

getAsyncRowFromLog(fs, fileId, rowNumber) == findRowInFile(fs.logs, fileId, rowNumber)

\* FileDatabase.getAsync('SELECT ... FROM csv_data WHERE file_id = ? AND row_number = ?')
getAsyncRow(fs, fileId, rowNumber) ==
  LET fileData ==
        IF Has(fs.mem.csvData, fileId) THEN <<fs.mem.csvData[fileId]>>
        ELSE IF Has(fs.logs, fileId) THEN <<loadCsvDataFromFile(fs.logs[fileId])>>
        ELSE <<>> IN
  IF fileData = <<>> THEN [settled |-> TRUE, result |-> <<>>]
  ELSE IF Has(fileData[1], rowNumber)
  THEN [settled |-> TRUE, result |-> <<fileData[1][rowNumber]>>]
  ELSE findRowInFile(fs.logs, fileId, rowNumber)

\* FileDatabase.getAsync on a statement of csv_data without a row number: the
\* header row of the cache.  The COUNT statement of GET /:id names csv_data too
\* and is answered by this branch.
getAsyncHeader(fs, fileId) ==
  LET fileData ==
        IF Has(fs.mem.csvData, fileId) THEN <<fs.mem.csvData[fileId]>>
        ELSE IF Has(fs.logs, fileId) THEN <<loadCsvDataFromFile(fs.logs[fileId])>>
        ELSE <<>> IN
  IF fileData = <<>> THEN <<>> ELSE findHeader(fileData[1], fileId)

(***************************************************************************)
(* Row Access Layer: GET /:id and GET /:id/row/:rowNumber.  Each request   *)
(* opens fresh store instances over the files on disk (db is the image of  *)
(* db.sqlite, json is csv_files.json, logs the .jsonl files).  A JS value  *)
(* that may be undefined or null is a sequence of length at most one.      *)
(***************************************************************************)
\* the backend that answers: SQLite first, then the file database
lookupFile(db, json, fileId, userId) ==
  LET a == sqlGetFileOfUser(db, fileId, userId) IN
  IF a # <<>> THEN [file |-> a, dbType |-> SQLITE]
  ELSE [file |-> fdbGetFile(json, fileId, userId), dbType |-> FILEDB]

\* the streaming header scan of the routes: the first header line that parses
streamHeader(logs, fileId) ==
  IF ~Has(logs, fileId) THEN <<>>
  ELSE LET hs == SelectSeq(WellFormed(logs[fileId]),
                   LAMBDA r : r.file_id = fileId /\ r.is_header = 1 /\ JSONparse(r.row_data).ok) IN
       IF hs = <<>> THEN <<>> ELSE JSONparse(hs[1].row_data).val

readHeaders(db, json, logs, fileId, dbType) ==
  LET streamed == IF dbType = FILEDB THEN streamHeader(logs, fileId) ELSE <<>>
      headerRow == IF dbType = FILEDB
                   THEN getAsyncHeader(Store(fdbInit(json), json, logs), fileId)
                   ELSE sqlGetHeader(db, fileId) IN
  IF streamed # <<>> THEN streamed
  ELSE IF headerRow # <<>> THEN parseRowData(headerRow[1].row_data)
  ELSE <<>>

\* obj[header] = values[index] || '' for each header in turn
rowObject(headers, values) ==
  [h \in {headers[i] : i \in 1..Len(headers)} |->
     LET last == CHOOSE i \in 1..Len(headers) :
                   headers[i] = h /\ \A j \in 1..Len(headers) : headers[j] = h => j <= i IN
     IF last <= Len(values) THEN values[last] ELSE <<>>]

\* const totalRows = countResult ? countResult.total : 0
countTotal(db, json, logs, fileId, dbType) ==
  IF dbType = SQLITE THEN <<sqlCount(db, fileId)>>
  ELSE IF getAsyncHeader(Store(fdbInit(json), json, logs), fileId) # <<>> THEN <<>>
  ELSE <<0>>

\* the streamed page scan: data lines at positions offset+1 .. offset+pageSize
streamPage(logs, fileId, pageSize, offset) ==
  IF ~Has(logs, fileId) THEN <<>>
  ELSE Slice(SelectSeq(WellFormed(logs[fileId]),
                       LAMBDA r : r.file_id = fileId /\ r.is_header = 0),
             offset, pageSize)

\* the streamed single-row scan: the rowNumber-th data line
streamRow(logs, fileId, rowNumber) ==
  IF ~Has(logs, fileId) THEN <<>>
  ELSE LET ds == SelectSeq(WellFormed(logs[fileId]),
                           LAMBDA r : r.file_id = fileId /\ r.is_header = 0) IN
       IF rowNumber >= 1 /\ rowNumber <= Len(ds) THEN <<ds[rowNumber]>> ELSE <<>>

PageRequest(userId, fileId, page, pageSize) ==
  [op |-> "getPage", userId |-> userId, fileId |-> fileId, page |-> page, pageSize |-> pageSize]

getPage(db, json, logs, userId, fileId, page, pageSize) ==
  LET found == lookupFile(db, json, fileId, userId)
      req == PageRequest(userId, fileId, page, pageSize) IN
  IF found.file = <<>>
  THEN [req |-> req, status |-> 404, message |-> "File not found", dbType |-> "",
        headers |-> <<>>, data |-> <<>>, fileTotalRows |-> <<>>, totalRows |-> <<>>]
  ELSE
    LET file == found.file[1]
        offset == (page - 1) * pageSize
        headers == readHeaders(db, json, logs, fileId, found.dbType)
        totalRows == countTotal(db, json, logs, fileId, found.dbType)
        rows == IF found.dbType = FILEDB THEN streamPage(logs, fileId, pageSize, offset)
                ELSE sqlPage(db, fileId, pageSize, offset) IN
    [req |-> req, status |-> 200, message |-> "", dbType |-> found.dbType, headers |-> headers,
     data |-> [i \in 1..Len(rows) |->
                 [rowNumber |-> rows[i].row_number,
                  cols |-> rowObject(headers, parseRowData(rows[i].row_data))]],
     fileTotalRows |-> IF file.row_count # 0 THEN <<file.row_count>> ELSE totalRows,
     totalRows |-> totalRows]

RowRequest(userId, fileId, rowNumber) ==
  [op |-> "getRow", userId |-> userId, fileId |-> fileId, rowNumber |-> rowNumber]

getRow(db, json, logs, userId, fileId, rowNumber) ==
  LET found == lookupFile(db, json, fileId, userId)
      req == RowRequest(userId, fileId, rowNumber)
      notFound == [req |-> req, status |-> 404, message |-> "File not found", dbType |-> "",
                   headers |-> <<>>, data |-> <<>>] IN
  IF found.file = <<>> THEN notFound
  ELSE
    LET headers == readHeaders(db, json, logs, fileId, found.dbType)
        row == IF found.dbType = FILEDB THEN streamRow(logs, fileId, rowNumber)
               ELSE sqlGetRow(db, fileId, rowNumber) IN
    IF row = <<>> THEN [notFound EXCEPT !.message = "Row not found", !.dbType = found.dbType]
    ELSE [req |-> req, status |-> 200, message |-> "", dbType |-> found.dbType,
          headers |-> headers,
          data |-> <<[rowNumber |-> rowNumber,
                      cols |-> rowObject(headers, parseRowData(row[1].row_data))]>>]

(***************************************************************************)
(* GET /list.  upload_date is CURRENT_TIMESTAMP of the INSERT in SQLite    *)
(* and new Date().toISOString() in the file database; the time that        *)
(* new Date(upload_date).getTime() yields is the tick of the upload, which *)
(* the request took for its filename just before the INSERT.               *)
(***************************************************************************)
uploadDateTime(file) == file.filename

\* the columns of the SELECT
listedFile(file) ==
  [id |-> file.id, upload_date |-> uploadDateTime(file), row_count |-> file.row_count]

\* Array.sort by new Date(b.upload_date) - new Date(a.upload_date): stable
RECURSIVE insertByUploadDate(_, _)
insertByUploadDate(sorted, f) ==
  IF sorted = <<>> THEN <<f>>
  ELSE IF f.upload_date > Head(sorted).upload_date THEN <<f>> \o sorted
  ELSE <<Head(sorted)>> \o insertByUploadDate(Tail(sorted), f)

RECURSIVE sortByUploadDate(_)
sortByUploadDate(files) ==
  IF files = <<>> THEN <<>>
  ELSE insertByUploadDate(sortByUploadDate(SubSeq(files, 1, Len(files) - 1)), files[Len(files)])

\* the rows of a table or the values of a Map, in the order of their keys
RECURSIVE valuesOf(_)
valuesOf(m) ==
  IF DOMAIN m = {} THEN <<>>
  ELSE LET k == CHOOSE i \in DOMAIN m : \A j \in DOMAIN m : i <= j IN
       <<m[k]>> \o valuesOf(MapDel(m, k))

\* all('SELECT id, original_name, upload_date, row_count FROM csv_files
\*      WHERE user_id = ? ORDER BY upload_date DESC'), of either store
allFilesOfUser(csvFiles, userId) ==
  LET mine == SelectSeq(valuesOf(csvFiles), LAMBDA f : f.user_id = userId) IN
  sortByUploadDate([i \in 1..Len(mine) |-> listedFile(mine[i])])

\* allFiles.filter((file, index, self) => index === self.findIndex(f => f.id === file.id))
RECURSIVE uniqueFiles(_, _)
uniqueFiles(files, seen) ==
  IF files = <<>> THEN <<>>
  ELSE IF Head(files).id \in seen THEN uniqueFiles(Tail(files), seen)
  ELSE <<Head(files)>> \o uniqueFiles(Tail(files), seen \cup {Head(files).id})

ListRequest(userId) == [op |-> "list", userId |-> userId]

listFiles(db, json, userId) ==
  LET allFiles == allFilesOfUser(db.csv_files, userId) \o allFilesOfUser(fdbInit(json).csvFiles, userId) IN
  [req |-> ListRequest(userId), status |-> 200,
   files |-> sortByUploadDate(uniqueFiles(allFiles, {}))]

(***************************************************************************)
(* GET /:id with the filter parameters the viewer sends (filterColumn,     *)
(* filterKeyword): the handler reads page and pageSize from the query and  *)
(* no other parameter.                                                     *)
(***************************************************************************)
FilteredPageRequest(userId, fileId, page, pageSize, filterColumn, filterKeyword) ==
  [op |-> "getPageFiltered", userId |-> userId, fileId |-> fileId, page |-> page,
   pageSize |-> pageSize, filterColumn |-> filterColumn, filterKeyword |-> filterKeyword]

getPageFiltered(db, json, logs, userId, fileId, page, pageSize, filterColumn, filterKeyword) ==
  [getPage(db, json, logs, userId, fileId, page, pageSize) EXCEPT
     !.req = FilteredPageRequest(userId, fileId, page, pageSize, filterColumn, filterKeyword)]

(***************************************************************************)
(* DELETE /:id.  Returns the files on disk after the request and the       *)
(* response.                                                               *)
(***************************************************************************)
DeleteRequest(userId, fileId) == [op |-> "delete", userId |-> userId, fileId |-> fileId]

\* the target lookup: the caller's files of both stores, the SQLite ones first,
\* de-duplicated by id; then the store is chosen by id alone
deleteTarget(db, json, userId, fileId) ==
  LET a == sqlGetFileOfUser(db, fileId, userId)
      b == IF Has(json, fileId) /\ json[fileId] \in fdbFilesOfUser(json, userId)
           THEN <<json[fileId]>> ELSE <<>>
      target == IF a # <<>> THEN a ELSE b IN
  [file |-> target,
   dbType |-> IF target = <<>> THEN ""
              ELSE IF sqlGetFileById(db, fileId) # <<>> THEN SQLITE ELSE FILEDB]

deleteFile(db, json, logs, uploads, userId, fileId) ==
  LET t == deleteTarget(db, json, userId, fileId)
      req == DeleteRequest(userId, fileId) IN
  IF t.file = <<>>
  THEN [db |-> db, json |-> json, logs |-> logs, uploads |-> uploads,
        resp |-> [req |-> req, status |-> 404, message |-> "File not found", dbType |-> "",
                  filename |-> 0]]
  ELSE
    LET uploads2 == MapDel(uploads, t.file[1].filename)
        db2 == IF t.dbType = SQLITE THEN sqlDeleteFile(sqlDeleteData(db, fileId), fileId) ELSE db
        fs0 == Store(fdbInit(json), json, IF t.dbType = FILEDB THEN MapDel(logs, fileId) ELSE logs)
        fs2 == IF t.dbType = FILEDB
               THEN fdbClose(fdbDeleteFile(fdbDeleteData(fs0, fileId), fileId))
               ELSE fdbClose(fs0) IN
    [db |-> db2, json |-> fs2.json, logs |-> fs2.logs, uploads |-> uploads2,
     resp |-> [req |-> req, status |-> 200, message |-> "File deleted successfully",
               dbType |-> t.dbType, filename |-> t.file[1].filename]]

(***************************************************************************)
(* POST /batch-delete.  st = [db, fs, uploads, deletedCount]: db.sqlite    *)
(* and the file database as the loop of the handler leaves them.           *)
(***************************************************************************)
BatchDeleteRequest(userId, fileIds) ==
  [op |-> "batchDelete", userId |-> userId, fileIds |-> fileIds]

\* one turn of the loop over fileIds
batchDeleteOne(st, userId, fileId) ==
  LET a == sqlGetFileOfUser(st.db, fileId, userId)
      b == IF a = <<>> THEN fdbGetFileByFilename(st.fs.mem.csvFiles, fileId) ELSE <<>> IN
  IF a # <<>>
  THEN [st EXCEPT !.db = sqlDeleteFile(sqlDeleteData(st.db, fileId), fileId),
                  !.uploads = MapDel(@, a[1].filename),
                  !.deletedCount = @ + 1]
  ELSE IF b # <<>>
  THEN [st EXCEPT !.fs = fdbDeleteFile(fdbDeleteData([st.fs EXCEPT !.logs = MapDel(@, fileId)],
                                                     fileId), fileId),
                  !.uploads = MapDel(@, b[1].filename),
                  !.deletedCount = @ + 1]
  ELSE st

RECURSIVE batchDeleteLoop(_, _, _)
batchDeleteLoop(st, userId, fileIds) ==
  IF fileIds = <<>> THEN st
  ELSE batchDeleteLoop(batchDeleteOne(st, userId, Head(fileIds)), userId, Tail(fileIds))

batchDelete(db, json, logs, uploads, userId, fileIds) ==
  LET req == BatchDeleteRequest(userId, fileIds) IN
  IF fileIds = <<>>
  THEN [db |-> db, json |-> json, logs |-> logs, uploads |-> uploads,
        resp |-> [req |-> req, status |-> 400, message |-> "No files selected",
                  deletedCount |-> 0]]
  ELSE LET st0 == [db |-> db, fs |-> Store(fdbInit(json), json, logs), uploads |-> uploads,
                   deletedCount |-> 0]
           st == batchDeleteLoop(st0, userId, fileIds)
           fs == fdbClose(st.fs) IN
       [db |-> st.db, json |-> fs.json, logs |-> fs.logs, uploads |-> st.uploads,
        resp |-> [req |-> req, status |-> 200, message |-> "Successfully deleted",
                  deletedCount |-> st.deletedCount]]

(***************************************************************************)
(* The account routes.  Each opens createOptimizedDatabase(0), which is a  *)
(* SqliteDatabase over db.sqlite, and every run saves the image; the file  *)
(* database and the uploads directory are not opened.                      *)
(***************************************************************************)
RegisterRequest(username) == [op |-> "register", username |-> username]

\* POST /register with a username and a password that pass validation
register(db, username) ==
  LET inserted == sqlInsertUser(db, username)
      req == RegisterRequest(username) IN
  IF inserted = <<>>
  THEN [db |-> db,
        resp |-> [req |-> req, status |-> 409, message |-> "Username already exists",
                  userId |-> <<>>]]
  ELSE [db |-> inserted[1],
        resp |-> [req |-> req, status |-> 201, message |-> "User created successfully",
                  userId |-> <<sqlGetUserByName(inserted[1], username)[1].id>>]]

\* the three deletes the two account deletions share
deleteAccountRows(db, userId) ==
  LET ids == {f.id : f \in sqlFilesOfUser(db, userId)} IN
  sqlDeleteUser(sqlDeleteFilesOfUser(sqlDeleteDataOfFiles(db, ids), userId), userId)

DeleteProfileRequest(userId) == [op |-> "deleteProfile", userId |-> userId]

\* DELETE /profile
deleteProfile(db, userId) ==
  [db |-> deleteAccountRows(db, userId),
   resp |-> [req |-> DeleteProfileRequest(userId), status |-> 200,
             message |-> "Account deleted successfully"]]

DeleteUserRequest(userId, targetUserId) ==
  [op |-> "deleteUser", userId |-> userId, targetUserId |-> targetUserId]

\* DELETE /users/:id
deleteUser(db, userId, targetUserId) ==
  LET req == DeleteUserRequest(userId, targetUserId)
      currentUser == sqlGetUserById(db, userId) IN
  IF currentUser = <<>> \/ currentUser[1].is_admin = 0
  THEN [db |-> db, resp |-> [req |-> req, status |-> 403, message |-> "Admin access required"]]
  ELSE IF targetUserId = userId
  THEN [db |-> db, resp |-> [req |-> req, status |-> 400, message |-> "Cannot delete yourself"]]
  ELSE IF sqlGetUserById(db, targetUserId) = <<>>
  THEN [db |-> db, resp |-> [req |-> req, status |-> 404, message |-> "User not found"]]
  ELSE [db |-> deleteAccountRows(db, targetUserId),
        resp |-> [req |-> req, status |-> 200, message |-> "User deleted successfully"]]

\* an INSERT of the registration made on the database that db.sqlite holds
\* when the statement runs, not on the one the instance has read
registerRunReloaded(r, image) == register(image, r.username)

\* POST /register after bcrypt.hash: the INSERT runs on the database that the
\* instance read when it was opened, and save() exports that database
registerRun(r, image) == register(r.db, r.username)

(***************************************************************************)
(* The DatabaseManager of a request: s = [dbType, db, image, fs].  db is   *)
(* the in-memory SQL.js database of a SqliteDatabase and image the file it *)
(* exports to; fs is the FileDatabase with its data directory.             *)
(***************************************************************************)
\* a run that changes the database in memory and does not export it
sqliteRunUnsaved(s, newDb) == [s EXCEPT !.db = newDb]

\* SqliteDatabase.run: the statement, then save() exports the whole database
sqliteRun(s, newDb) == [s EXCEPT !.db = newDb, !.image = newDb]

dbmInsertData(s, row) ==
  IF s.dbType = SQLITE THEN sqliteRun(s, sqlInsertData(s.db, row))
  ELSE [s EXCEPT !.fs = fdbInsertData(s.fs, row)]

dbmUpdateRowCount(s, rowCount, fileId) ==
  IF s.dbType = SQLITE THEN sqliteRun(s, sqlUpdateRowCount(s.db, rowCount, fileId))
  ELSE [s EXCEPT !.fs = fdbUpdateRowCount(s.fs, rowCount, fileId)]

dbmSave(s) ==
  IF s.dbType = SQLITE THEN [s EXCEPT !.image = s.db] ELSE [s EXCEPT !.fs = fdbSave(s.fs)]

dbmClose(s) ==
  IF s.dbType = SQLITE THEN [s EXCEPT !.db = EmptyDb] ELSE [s EXCEPT !.fs = fdbClose(s.fs)]

RECURSIVE insertBatch(_, _)
insertBatch(s, batch) ==
  IF batch = <<>> THEN s ELSE insertBatch(dbmInsertData(s, Head(batch)), Tail(batch))

(***************************************************************************)
(* POST /upload.  The parsed records of the uploaded file (Papa.parse is   *)
(* outside the model) are up.content; up.pos is the next record to reach   *)
(* the step callback.                                                      *)
(***************************************************************************)
Idle ==
  [pc |-> "idle", userId |-> 0, filename |-> 0, dbType |-> "", fileId |-> 0, content |-> <<>>,
   pos |-> 1, isFirstRow |-> TRUE, batch |-> <<>>, rowCount |-> 0, db |-> EmptyDb,
   mem |-> NoInstance, writeFailed |-> FALSE, fileSizeMB |-> 0, reports |-> <<>>]

NoResp == [req |-> [op |-> "none"], status |-> 0]

\* POST /register between its two awaits: the instance is open (db is the
\* database it has read from db.sqlite) and bcrypt.hash has not returned
NoRegistration == [pc |-> "idle", username |-> 0, db |-> EmptyDb]

Session == [dbType |-> up.dbType, db |-> up.db, image |-> sqliteFile,
            fs |-> Store(up.mem, csvFilesJson, dataFiles)]

encodeRow(record) == JSONstringify(record)

(***************************************************************************)
(* The progress estimate of the step callback.  Percentages are in         *)
(* tenths of a percent (99.9% is 999), elapsed in hundredths of a second   *)
(* as toFixed(2) leaves it, fileSizeMB in hundredths of a megabyte.        *)
(* The batch of the handler holds sourceBatchSize rows and the batch of    *)
(* the model batchSize rows, so a row of the model counts for              *)
(* sourceBatchSize \div batchSize rows in the estimate.                    *)
(***************************************************************************)
sourceBatchSize == 100000

processedRows(rowCount) == rowCount * (sourceBatchSize \div batchSize)

rowsPerMB(fileSizeMB) ==
  IF fileSizeMB <= 10 * 100 THEN 500
  ELSE IF fileSizeMB <= 100 * 100 THEN 1000
  ELSE IF fileSizeMB <= 1000 * 100 THEN 5000
  ELSE IF fileSizeMB <= 5000 * 100 THEN 8000
  ELSE 10000

Min(a, b) == IF a <= b THEN a ELSE b

Max(a, b) == IF a >= b THEN a ELSE b

\* Math.max(rowCount, fileSizeMBNum * rowsPerMB)
estimatedTotalRows(rowCount, fileSizeMB) ==
  Max(processedRows(rowCount), fileSizeMB * (rowsPerMB(fileSizeMB) \div 100))

\* the percentage before it is rounded for the report
progressEstimate(rowCount, fileSizeMB, elapsed) ==
  LET rows == processedRows(rowCount)
      currentSpeedPositive == elapsed > 0 /\ rows > 0
      timeBasedProgress == Min(500, elapsed \div 60) IN
  Max(IF currentSpeedPositive
      THEN Min(999, (rows * 1000) \div estimatedTotalRows(rowCount, fileSizeMB))
      ELSE timeBasedProgress,
      0)

\* what the step callback logs after a flushed batch: the percentage rounded
\* down to a multiple of ten, or nothing
progressReport(rowCount, fileSizeMB, elapsed) ==
  LET progress == progressEstimate(rowCount, fileSizeMB, elapsed)
      progressInt == (progress \div 100) * 10 IN
  IF progressInt > 0 /\ progressInt <= 90 /\ progress % 100 < 20
  THEN <<progressInt>> ELSE <<>>

\* the step callback for one parsed record
stepRow(s, u, record) ==
  IF u.isFirstRow
  THEN [s |-> dbmInsertData(s, Row(u.fileId, 0, encodeRow(record), 1)),
        isFirstRow |-> FALSE, batch |-> u.batch, rowCount |-> u.rowCount]
  ELSE LET rowCount == u.rowCount + 1
           batch == Append(u.batch, Row(u.fileId, rowCount, encodeRow(record), 0)) IN
       IF Len(batch) >= batchSize
       THEN [s |-> insertBatch(s, batch), isFirstRow |-> FALSE, batch |-> <<>>,
             rowCount |-> rowCount]
       ELSE [s |-> s, isFirstRow |-> FALSE, batch |-> batch, rowCount |-> rowCount]

\* SqliteDatabase.run whose save() throws (the write of db.sqlite fails): the
\* statement has changed the database in memory and the image is as it was
sqliteRunSaveThrows(s, newDb) == [s EXCEPT !.db = newDb]

\* the step callback for one parsed record when its first run throws: the
\* catch of the callback logs the error, and the assignments after the run
\* (isFirstRow = false, batch = []) have not been made
stepRowThrows(s, u, record) ==
  IF u.isFirstRow
  THEN [s |-> sqliteRunSaveThrows(s, sqlInsertData(s.db, Row(u.fileId, 0, encodeRow(record), 1))),
        isFirstRow |-> TRUE, batch |-> u.batch, rowCount |-> u.rowCount]
  ELSE LET rowCount == u.rowCount + 1
           batch == Append(u.batch, Row(u.fileId, rowCount, encodeRow(record), 0)) IN
       [s |-> sqliteRunSaveThrows(s, sqlInsertData(s.db, batch[1])),
        isFirstRow |-> FALSE, batch |-> batch, rowCount |-> rowCount]

\* the step callback for a record that fills the batch, when the j-th run of
\* the loop over the batch throws in save(): the runs before it have written
\* their rows, and batch = [] is not reached
stepRowThrowsAt(s, u, record, j) ==
  LET rowCount == u.rowCount + 1
      batch == Append(u.batch, Row(u.fileId, rowCount, encodeRow(record), 0))
      s1 == insertBatch(s, SubSeq(batch, 1, j - 1)) IN
  [s |-> sqliteRunSaveThrows(s1, sqlInsertData(s1.db, batch[j])),
   isFirstRow |-> FALSE, batch |-> batch, rowCount |-> rowCount]

\* a handler without the rowCount === 0 check
finishUploadUnchecked(s, u) ==
  LET s1 == dbmSave(insertBatch(s, u.batch))
      req == [op |-> "upload", userId |-> u.userId, content |-> u.content] IN
  [s |-> dbmClose(dbmUpdateRowCount(s1, u.rowCount, u.fileId)),
   resp |-> [req |-> req, status |-> 201, dbType |-> u.dbType, fileId |-> u.fileId,
             rowCount |-> u.rowCount]]

\* the complete callback, the rest of the handler and its finally block
finishUpload(s, u) ==
  LET s1 == dbmSave(insertBatch(s, u.batch))
      req == [op |-> "upload", userId |-> u.userId, content |-> u.content] IN
  IF u.rowCount = 0
  THEN [s |-> dbmClose(s1),
        resp |-> [req |-> req, status |-> 400, dbType |-> u.dbType, fileId |-> u.fileId,
                  rowCount |-> 0]]
  ELSE [s |-> dbmClose(dbmUpdateRowCount(s1, u.rowCount, u.fileId)),
        resp |-> [req |-> req, status |-> 201, dbType |-> u.dbType, fileId |-> u.fileId,
                  rowCount |-> u.rowCount]]

\* Papa.parse reports an error (the read of the uploaded file fails): the
\* promise is rejected, the catch block answers 500 and the finally block
\* closes the store
failUpload(s, u) ==
  [s |-> dbmClose(s),
   resp |-> [req |-> [op |-> "upload", userId |-> u.userId, content |-> u.content],
             status |-> 500, dbType |-> u.dbType, fileId |-> u.fileId, rowCount |-> 0]]

(***************************************************************************)
(* Inputs.                                                                 *)
(***************************************************************************)
FileIds == 1..MaxUploads
Pages == 1..MaxPage
PageSizes == 1..MaxPageSize
RowNumbers == 0..MaxRowNumber

UploadSizes == {1 * BytesPerMB, 60 * BytesPerMB}

\* sizes whose estimate passes a multiple of ten percent within a few batches
ProgressSizes == {1 * BytesPerMB, 60 * BytesPerMB, 180 * BytesPerMB, 200 * BytesPerMB}

\* readings of the wall clock since the parse began: set back, the same
\* hundredth of a second, later
ElapsedReadings == {0 - 100, 0, 150}

CsvEmpty == <<>>
CsvHeaderOnly == << <<<<"n">>, <<"g">>>> >>
CsvOne == << <<<<"n">>>>, <<<<"A">>>> >>
\* name,age / Alice,30 / "Bob, Jr.",25 with the words shortened
CsvScenario == << <<<<"n">>, <<"g">>>>, <<<<"A">>, <<"3">>>>, <<<<"B", ",", " ", "J">>, <<"2">>>> >>
\* embedded newline, quote and backslash; a short row and an empty column name
CsvQuoted ==
  << <<<<"n">>, <<>>>>, <<<<"l", "\n", "m">>, <<"q", "\"">>>>, <<<<"\\", "n">>>>,
     <<<<"x">>, <<",">>>> >>
\* a repeated column name and a row longer than the header
CsvRepeated == << <<<<"k">>, <<"k">>>>, <<<<"x">>, <<"y">>, <<"z">>>> >>
\* a header and four records: two full batches
CsvLong == << <<<<"c">>>>, <<<<"1">>>>, <<<<"2">>>>, <<<<"3">>>>, <<<<"4">>>> >>

Contents == {CsvEmpty, CsvHeaderOnly, CsvOne, CsvScenario, CsvQuoted, CsvRepeated, CsvLong}

SelectorSizes == 0..(MaxSizeMB * 100)
ByteSizes ==
  {ThresholdMB * BytesPerMB + d : d \in (0 - ByteSpread)..ByteSpread}
    \cup {ThresholdMB * BytesPerMB + (BytesPerMB \div 200) + d : d \in (0 - ByteSpread)..ByteSpread}

(***************************************************************************)
(* Actions.                                                                *)
(***************************************************************************)
\* the accounts of UserIds are registered, the first of them made the
\* administrator (setup-admin), and no file has been uploaded
InitialDb ==
  [EmptyDb EXCEPT !.users = [u \in UserIds |-> User(u, u, IF u = 1 THEN 1 ELSE 0)],
                  !.userSeq = NumUsers]

Init ==
  /\ sqliteFile = InitialDb
  /\ csvFilesJson = EmptyMap
  /\ dataFiles = EmptyMap
  /\ uploadsDir = EmptyMap
  /\ clock = 0
  /\ up = Idle
  /\ reg = NoRegistration
  /\ rowScan = ScanIdle
  /\ resp = NoResp

\* multer has stored the file; the handler opens the store and inserts the file record
UploadStart(userId, bytes, content) ==
  /\ up.pc = "idle"
  /\ clock < MaxUploads
  /\ clock' = clock + 1
  /\ uploadsDir' = MapPut(uploadsDir, clock + 1, content)
  /\ LET filename == clock + 1
         dbType == uploadDbType(bytes)
         db1 == IF dbType = SQLITE THEN sqlInsertFile(sqliteFile, userId, filename) ELSE EmptyDb
         fs0 == Store(fdbInit(csvFilesJson), csvFilesJson, dataFiles)
         fs1 == IF dbType = FILEDB THEN fdbInsertFile(fs0, userId, filename)
                ELSE Store(NoInstance, csvFilesJson, dataFiles)
         fileId == IF dbType = SQLITE THEN sqlGetIdByFilename(db1, filename)[1]
                   ELSE mintId(fs0.mem.csvFiles) IN
     /\ sqliteFile' = IF dbType = SQLITE THEN db1 ELSE sqliteFile
     /\ csvFilesJson' = fs1.json
     /\ up' = [Idle EXCEPT !.pc = "parsing", !.userId = userId, !.filename = filename,
                           !.dbType = dbType, !.fileId = fileId, !.content = content,
                           !.db = db1, !.mem = fs1.mem, !.fileSizeMB = toFixed2(bytes)]
  /\ resp' = NoResp
  /\ UNCHANGED <<rowScan, reg, dataFiles>>

\* one step callback; elapsed is what Date.now() - dbInsertStartTime reads when
\* the step has flushed a full batch
UploadStepAt(elapsed) ==
  /\ up.pc = "parsing"
  /\ up.pos <= Len(up.content)
  /\ LET r == stepRow(Session, up, up.content[up.pos])
         flushed == ~up.isFirstRow /\ Len(up.batch) + 1 >= batchSize IN
     /\ sqliteFile' = r.s.image
     /\ csvFilesJson' = r.s.fs.json
     /\ dataFiles' = r.s.fs.logs
     /\ up' = [up EXCEPT !.pos = @ + 1, !.isFirstRow = r.isFirstRow, !.batch = r.batch,
                         !.rowCount = r.rowCount, !.db = r.s.db, !.mem = r.s.fs.mem,
                         !.reports = IF flushed
                                     THEN @ \o progressReport(r.rowCount, up.fileSizeMB, elapsed)
                                     ELSE @]
  /\ resp' = NoResp
  /\ UNCHANGED <<rowScan, reg, uploadsDir, clock>>

UploadStep ==
  \E elapsed \in ElapsedReadings : UploadStepAt(elapsed)

\* a step whose first INSERT fails to write db.sqlite; up.writeFailed records
\* that a write of this upload has failed
UploadStepWriteFails ==
  /\ up.pc = "parsing"
  /\ up.dbType = SQLITE
  /\ up.pos <= Len(up.content)
  /\ up.isFirstRow \/ Len(up.batch) + 1 >= batchSize
  /\ LET r == stepRowThrows(Session, up, up.content[up.pos]) IN
     up' = [up EXCEPT !.pos = @ + 1, !.isFirstRow = r.isFirstRow, !.batch = r.batch,
                      !.rowCount = r.rowCount, !.db = r.s.db, !.writeFailed = TRUE]
  /\ resp' = NoResp
  /\ UNCHANGED <<rowScan, reg, sqliteFile, csvFilesJson, dataFiles, uploadsDir, clock>>

UploadComplete ==
  /\ up.pc = "parsing"
  /\ up.pos > Len(up.content)
  /\ LET r == finishUpload(Session, up) IN
     /\ sqliteFile' = r.s.image
     /\ csvFilesJson' = r.s.fs.json
     /\ dataFiles' = r.s.fs.logs
     /\ resp' = r.resp
     /\ up' = [Idle EXCEPT !.db = r.s.db, !.mem = r.s.fs.mem]
  /\ UNCHANGED <<rowScan, reg, uploadsDir, clock>>

\* the parse of the uploaded file fails between two chunks
UploadParseError ==
  /\ up.pc = "parsing"
  /\ LET r == failUpload(Session, up) IN
     /\ sqliteFile' = r.s.image
     /\ csvFilesJson' = r.s.fs.json
     /\ dataFiles' = r.s.fs.logs
     /\ resp' = r.resp
     /\ up' = [Idle EXCEPT !.db = r.s.db, !.mem = r.s.fs.mem]
  /\ UNCHANGED <<rowScan, reg, uploadsDir, clock>>

\* the 3 s flush timer of the uploading FileDatabase fires between two chunks
TimerFire ==
  /\ up.pc = "parsing"
  /\ up.dbType = FILEDB
  /\ up.mem.writeTimer /\ ~up.mem.timerRan
  /\ LET fs == timerCallback(Session.fs) IN
     /\ dataFiles' = fs.logs
     /\ up' = [up EXCEPT !.mem = fs.mem]
  /\ resp' = NoResp
  /\ UNCHANGED <<rowScan, reg, sqliteFile, csvFilesJson, uploadsDir, clock>>

GetPage(userId, fileId, page, pageSize) ==
  /\ resp' = getPage(sqliteFile, csvFilesJson, dataFiles, userId, fileId, page, pageSize)
  /\ UNCHANGED <<rowScan, reg, sqliteFile, csvFilesJson, dataFiles, uploadsDir, clock, up>>

GetRow(userId, fileId, rowNumber) ==
  /\ resp' = getRow(sqliteFile, csvFilesJson, dataFiles, userId, fileId, rowNumber)
  /\ UNCHANGED <<rowScan, reg, sqliteFile, csvFilesJson, dataFiles, uploadsDir, clock, up>>

DeleteFile(userId, fileId) ==
  /\ LET r == deleteFile(sqliteFile, csvFilesJson, dataFiles, uploadsDir, userId, fileId) IN
     /\ sqliteFile' = r.db
     /\ csvFilesJson' = r.json
     /\ dataFiles' = r.logs
     /\ uploadsDir' = r.uploads
     /\ resp' = r.resp
  /\ UNCHANGED <<rowScan, reg, clock, up>>

ListFiles(userId) ==
  /\ resp' = listFiles(sqliteFile, csvFilesJson, userId)
  /\ UNCHANGED <<rowScan, reg, sqliteFile, csvFilesJson, dataFiles, uploadsDir, clock, up>>

GetPageFiltered(userId, fileId, page, pageSize, filterColumn, filterKeyword) ==
  /\ resp' = getPageFiltered(sqliteFile, csvFilesJson, dataFiles, userId, fileId, page, pageSize,
                             filterColumn, filterKeyword)
  /\ UNCHANGED <<rowScan, reg, sqliteFile, csvFilesJson, dataFiles, uploadsDir, clock, up>>

BatchDelete(userId, fileIds) ==
  /\ LET r == batchDelete(sqliteFile, csvFilesJson, dataFiles, uploadsDir, userId, fileIds) IN
     /\ sqliteFile' = r.db
     /\ csvFilesJson' = r.json
     /\ dataFiles' = r.logs
     /\ uploadsDir' = r.uploads
     /\ resp' = r.resp
  /\ UNCHANGED <<rowScan, reg, clock, up>>

Register(username) ==
  /\ sqliteFile.userSeq < NumUsers + MaxRegistrations
  /\ LET r == register(sqliteFile, username) IN
     /\ sqliteFile' = r.db
     /\ resp' = r.resp
  /\ UNCHANGED <<rowScan, reg, csvFilesJson, dataFiles, uploadsDir, clock, up>>

\* POST /register up to await bcrypt.hash: createOptimizedDatabase(0) has read
\* db.sqlite
RegisterOpen(username) ==
  /\ reg.pc = "idle"
  /\ sqliteFile.userSeq < NumUsers + MaxRegistrations
  /\ reg' = [pc |-> "hashing", username |-> username, db |-> sqliteFile]
  /\ resp' = NoResp
  /\ UNCHANGED <<rowScan, sqliteFile, csvFilesJson, dataFiles, uploadsDir, clock, up>>

\* POST /register from the INSERT on: an INSERT that throws does not reach save()
RegisterRun ==
  /\ reg.pc = "hashing"
  /\ LET r == registerRun(reg, sqliteFile) IN
     /\ sqliteFile' = IF r.resp.status = 201 THEN r.db ELSE sqliteFile
     /\ resp' = r.resp
  /\ reg' = NoRegistration
  /\ UNCHANGED <<rowScan, csvFilesJson, dataFiles, uploadsDir, clock, up>>

DeleteProfile(userId) ==
  /\ LET r == deleteProfile(sqliteFile, userId) IN
     /\ sqliteFile' = r.db
     /\ resp' = r.resp
  /\ UNCHANGED <<rowScan, reg, csvFilesJson, dataFiles, uploadsDir, clock, up>>

DeleteUser(userId, targetUserId) ==
  /\ LET r == deleteUser(sqliteFile, userId, targetUserId) IN
     /\ sqliteFile' = r.db
     /\ resp' = r.resp
  /\ UNCHANGED <<rowScan, reg, csvFilesJson, dataFiles, uploadsDir, clock, up>>

(***************************************************************************)
(* Spec: up to MaxUploads uploads of a one-record file by any user into    *)
(* either store, one upload in flight at a time, with the reads and        *)
(* deletes of all users arriving between any two of its chunks.            *)
(***************************************************************************)
Next ==
  \/ \E u \in UserIds, b \in UploadSizes : UploadStart(u, b, CsvOne)
  \/ UploadStep
  \/ UploadComplete
  \/ TimerFire
  \/ \E u \in UserIds, f \in FileIds : GetPage(u, f, 1, MaxPageSize)
  \/ \E u \in UserIds, f \in FileIds : GetRow(u, f, 1)
  \/ \E u \in UserIds, f \in FileIds : DeleteFile(u, f)

Spec == Init /\ [][Next]_vars

(***************************************************************************)
(* SerialSpec: the same requests served one after the other: a read or a   *)
(* delete arrives only while no upload is in flight.                       *)
(***************************************************************************)
SerialNext ==
  \/ \E u \in UserIds, b \in UploadSizes : UploadStart(u, b, CsvOne)
  \/ UploadStep
  \/ UploadComplete
  \/ TimerFire
  \/ \E u \in UserIds, f \in FileIds : up.pc = "idle" /\ GetPage(u, f, 1, MaxPageSize)
  \/ \E u \in UserIds, f \in FileIds : up.pc = "idle" /\ GetRow(u, f, 1)
  \/ \E u \in UserIds, f \in FileIds : up.pc = "idle" /\ DeleteFile(u, f)

SerialSpec == Init /\ [][SerialNext]_vars

(***************************************************************************)
(* IngestSpec: one upload of any of the Contents, with the flush timer and *)
(* the reads and deletes of its file arriving between any two chunks.      *)
(***************************************************************************)
IngestNext ==
  \/ \E u \in UserIds, b \in UploadSizes, c \in Contents : clock = 0 /\ UploadStart(u, b, c)
  \/ UploadStep
  \/ UploadComplete
  \/ TimerFire
  \/ \E u \in UserIds, p \in Pages, n \in PageSizes : GetPage(u, 1, p, n)
  \/ \E u \in UserIds, k \in RowNumbers : GetRow(u, 1, k)
  \/ \E u \in UserIds : DeleteFile(u, 1)

IngestSpec == Init /\ [][IngestNext]_vars

(***************************************************************************)
(* SelectorSpec: one call of the selector on its own: every size in        *)
(* hundredths of a megabyte up to MaxSizeMB, and the size computation of   *)
(* POST /upload on byte sizes around the threshold.                        *)
(***************************************************************************)
SelectDatabase(fileSizeMB) ==
  /\ resp' = [req |-> [op |-> "selectDatabase", fileSizeMB |-> fileSizeMB, bytes |-> 0],
              status |-> 0, dbType |-> selectDatabase(fileSizeMB)]
  /\ UNCHANGED <<rowScan, reg, sqliteFile, csvFilesJson, dataFiles, uploadsDir, clock, up>>

CreateForUpload(bytes) ==
  /\ resp' = [req |-> [op |-> "createOptimizedDatabase", fileSizeMB |-> toFixed2(bytes),
                       bytes |-> bytes],
              status |-> 0, dbType |-> uploadDbType(bytes)]
  /\ UNCHANGED <<rowScan, reg, sqliteFile, csvFilesJson, dataFiles, uploadsDir, clock, up>>

SelectorNext ==
  \/ \E s \in SelectorSizes : resp = NoResp /\ SelectDatabase(s)
  \/ \E b \in ByteSizes : resp = NoResp /\ CreateForUpload(b)

SelectorSpec == Init /\ [][SelectorNext]_vars

(***************************************************************************)
(* AccountSpec: registrations and account deletions around the uploads of  *)
(* Spec (MaxAccountUploads of them), made while no upload is in flight.  A *)
(* deleted user still holds a token that authenticateToken accepts.  What  *)
(* a read would answer in a state is getPage or getRow applied to the      *)
(* files of that state.                                                    *)
(***************************************************************************)
Usernames == 1..(NumUsers + MaxRegistrations)

AccountNext ==
  \/ \E u \in UserIds, b \in UploadSizes : clock < MaxAccountUploads /\ UploadStart(u, b, CsvOne)
  \/ UploadStep
  \/ UploadComplete
  \/ TimerFire
  \/ \E n \in Usernames : up.pc = "idle" /\ Register(n)
  \/ \E u \in UserIds : up.pc = "idle" /\ DeleteProfile(u)
  \/ \E u \in UserIds, t \in UserIds : up.pc = "idle" /\ DeleteUser(u, t)

AccountSpec == Init /\ [][AccountNext]_vars

(***************************************************************************)
(* BatchSpec: the uploads of SerialSpec, and between them batch deletes of *)
(* any user for any list of ids (each id once, in increasing order).       *)
(***************************************************************************)
RECURSIVE ListOf(_)
ListOf(S) ==
  IF S = {} THEN <<>>
  ELSE LET m == CHOOSE i \in S : \A j \in S : i <= j IN <<m>> \o ListOf(S \ {m})

IdLists == {ListOf(S) : S \in SUBSET FileIds}

BatchNext ==
  \/ \E u \in UserIds, b \in UploadSizes : UploadStart(u, b, CsvOne)
  \/ UploadStep
  \/ UploadComplete
  \/ TimerFire
  \/ \E u \in UserIds, ids \in IdLists : up.pc = "idle" /\ BatchDelete(u, ids)

BatchSpec == Init /\ [][BatchNext]_vars

(***************************************************************************)
(* FaultSpec: one upload of any content, in which a write of db.sqlite may *)
(* fail in any step that runs a statement.                                 *)
(***************************************************************************)
FaultNext ==
  \/ \E u \in UserIds, b \in UploadSizes, c \in Contents : clock = 0 /\ UploadStart(u, b, c)
  \/ UploadStep
  \/ UploadStepWriteFails
  \/ UploadComplete
  \/ TimerFire

FaultSpec == Init /\ [][FaultNext]_vars

(***************************************************************************)
(* QuerySpec: the uploads of SerialSpec with the list of a user's files    *)
(* and the filtered page reads of the viewer arriving between them.        *)
(***************************************************************************)
FilterColumns == {<<"n">>}
FilterKeywords == {<<"A">>, <<"B">>}

QueryNext ==
  \/ \E u \in UserIds, b \in UploadSizes : UploadStart(u, b, CsvOne)
  \/ UploadStep
  \/ UploadComplete
  \/ TimerFire
  \/ \E u \in UserIds : up.pc = "idle" /\ ListFiles(u)
  \/ \E u \in UserIds, f \in FileIds, c \in FilterColumns, k \in FilterKeywords :
       up.pc = "idle" /\ GetPageFiltered(u, f, 1, MaxPageSize, c, k)

QuerySpec == Init /\ [][QueryNext]_vars

(***************************************************************************)
(* WriterSpec: an upload and registrations whose instances are open at the *)
(* same time: a registration may read db.sqlite before a step of the       *)
(* upload and run its INSERT after it, and the other way round.            *)
(***************************************************************************)
WriterNext ==
  \/ \E u \in UserIds, b \in UploadSizes : clock < MaxAccountUploads /\ UploadStart(u, b, CsvOne)
  \/ UploadStep
  \/ UploadComplete
  \/ TimerFire
  \/ \E n \in Usernames : RegisterOpen(n)
  \/ RegisterRun

WriterSpec == Init /\ [][WriterNext]_vars

(***************************************************************************)
(* FlushSpec: one upload of any content, with deletes of its file between  *)
(* any two chunks, where an armed flush timer fires in the end: setTimeout *)
(* runs its callback unless close() clears the timer first.                *)
(***************************************************************************)
FlushNext ==
  \/ \E u \in UserIds, b \in UploadSizes, c \in Contents : clock = 0 /\ UploadStart(u, b, c)
  \/ UploadStep
  \/ UploadComplete
  \/ TimerFire
  \/ \E u \in UserIds : DeleteFile(u, 1)

FlushSpec == Init /\ [][FlushNext]_vars /\ WF_vars(TimerFire)

(***************************************************************************)
(* SharedSpec: one FileDatabase used for several files at a time, as the   *)
(* instance that DatabaseManager.getInstance(FILEDB) hands to every caller *)
(* is: file records are inserted, rows are appended to any of the files in *)
(* any order, and the flush timer fires.  up.mem is the instance.          *)
(***************************************************************************)
SharedOpen ==
  /\ up.pc = "idle"
  /\ clock = 0
  /\ up' = [Idle EXCEPT !.pc = "shared", !.dbType = FILEDB, !.mem = fdbInit(csvFilesJson)]
  /\ resp' = NoResp
  /\ UNCHANGED <<rowScan, sqliteFile, csvFilesJson, dataFiles, uploadsDir, clock, reg>>

\* run('INSERT INTO csv_files ...') on the shared instance
SharedInsertFile(userId) ==
  /\ up.pc = "shared"
  /\ clock < MaxUploads
  /\ LET fs == fdbInsertFile(Store(up.mem, csvFilesJson, dataFiles), userId, clock + 1) IN
     /\ csvFilesJson' = fs.json
     /\ up' = [up EXCEPT !.mem = fs.mem]
  /\ clock' = clock + 1
  /\ resp' = NoResp
  /\ UNCHANGED <<rowScan, sqliteFile, dataFiles, uploadsDir, reg>>

\* the rows of a file that the shared instance has been handed so far
SharedRows(fileId) ==
  (IF Has(dataFiles, fileId) THEN Len(dataFiles[fileId]) ELSE 0)
    + (IF Has(up.mem.pendingWrites, fileId) THEN Len(up.mem.pendingWrites[fileId]) ELSE 0)

\* run('INSERT INTO csv_data ...') on the shared instance: the next row of the file
SharedInsertData(fileId) ==
  /\ up.pc = "shared"
  /\ Has(up.mem.csvFiles, fileId)
  /\ SharedRows(fileId) < MaxRowNumber
  /\ LET k == SharedRows(fileId)
         row == Row(fileId, k, encodeRow(CsvOne[IF k = 0 THEN 1 ELSE 2]), IF k = 0 THEN 1 ELSE 0)
         fs == fdbInsertData(Store(up.mem, csvFilesJson, dataFiles), row) IN
     up' = [up EXCEPT !.mem = fs.mem]
  /\ resp' = NoResp
  /\ UNCHANGED <<rowScan, sqliteFile, csvFilesJson, dataFiles, uploadsDir, clock, reg>>

\* the setTimeout callback of the shared instance
SharedTimerFire ==
  /\ up.pc = "shared"
  /\ up.mem.writeTimer /\ ~up.mem.timerRan
  /\ LET fs == timerCallback(Store(up.mem, csvFilesJson, dataFiles)) IN
     /\ dataFiles' = fs.logs
     /\ up' = [up EXCEPT !.mem = fs.mem]
  /\ resp' = NoResp
  /\ UNCHANGED <<rowScan, sqliteFile, csvFilesJson, uploadsDir, clock, reg>>

SharedNext ==
  \/ SharedOpen
  \/ \E u \in UserIds : SharedInsertFile(u)
  \/ \E f \in FileIds : SharedInsertData(f)
  \/ SharedTimerFire

SharedSpec == Init /\ [][SharedNext]_vars

(***************************************************************************)
(* CleanupSpec: the shared instance of SharedSpec, on which files are also *)
(* deleted (the two DELETE statements of DELETE /:id, in its order) and    *)
(* rows are handed to run('INSERT INTO csv_data ...') for a file id that   *)
(* the instance has no record of.                                          *)
(***************************************************************************)
SharedDeleteFile(fileId) ==
  /\ up.pc = "shared"
  /\ Has(up.mem.csvFiles, fileId)
  /\ LET fs == fdbDeleteFile(fdbDeleteData(Store(up.mem, csvFilesJson, dataFiles), fileId),
                             fileId) IN
     /\ csvFilesJson' = fs.json
     /\ dataFiles' = fs.logs
     /\ up' = [up EXCEPT !.mem = fs.mem]
  /\ resp' = NoResp
  /\ UNCHANGED <<rowScan, sqliteFile, uploadsDir, clock, reg>>

\* run('INSERT INTO csv_data ...') for a file that the instance has no record of
SharedInsertDataDeleted(fileId) ==
  /\ up.pc = "shared"
  /\ ~Has(up.mem.csvFiles, fileId)
  /\ LET row == Row(fileId, 0, encodeRow(CsvOne[1]), 1)
         fs == fdbInsertData(Store(up.mem, csvFilesJson, dataFiles), row) IN
     /\ dataFiles' = fs.logs
     /\ up' = [up EXCEPT !.mem = fs.mem]
  /\ resp' = NoResp
  /\ UNCHANGED <<rowScan, sqliteFile, csvFilesJson, uploadsDir, clock, reg>>

\* rows appended to one file in CleanupSpec
MaxCleanupRows == 2

CleanupNext ==
  \/ SharedOpen
  \/ SharedInsertFile(1)
  \/ \E f \in FileIds : SharedRows(f) < MaxCleanupRows /\ SharedInsertData(f)
  \/ SharedTimerFire
  \/ \E f \in FileIds : SharedDeleteFile(f)
  \/ \E f \in FileIds : SharedInsertDataDeleted(f)

CleanupSpec == Init /\ [][CleanupNext]_vars

(***************************************************************************)
(* CacheSpec: the shared instance with the files of one user; each file is *)
(* appended to up to the memory ceiling and past it.                       *)
(***************************************************************************)
MaxCacheFiles == 2

CacheNext ==
  \/ SharedOpen
  \/ clock < MaxCacheFiles /\ SharedInsertFile(1)
  \/ \E f \in FileIds : SharedInsertData(f)
  \/ SharedTimerFire

CacheSpec == Init /\ [][CacheNext]_vars

(***************************************************************************)
(* ScanSpec: the shared instance with the files of one user, on which      *)
(* getAsync is called for single rows.  A call whose row is not in the row *)
(* cache goes to findRowInFile; the events of its read stream are the      *)
(* actions ScanData, ScanEnd and ScanError.                                *)
(***************************************************************************)
\* getAsync('... WHERE file_id = ? AND row_number = ?') with the row not in
\* the cache: return await this.findRowInFile(fileId, rowNumber)
ScanStart(fileId, rowNumber) ==
  /\ up.pc = "shared"
  /\ rowScan.pc \in {"idle", "resolved"}
  /\ Has(up.mem.csvData, fileId)
  /\ ~Has(up.mem.csvData[fileId], rowNumber)
  /\ rowScan' = scanStart(dataFiles, fileId, rowNumber)
  /\ resp' = NoResp
  /\ UNCHANGED <<sqliteFile, csvFilesJson, dataFiles, uploadsDir, clock, up, reg>>

\* a 'data' event, taken line by line
ScanData ==
  /\ rowScan.pc = "reading"
  /\ rowScan.pos <= Len(RowsInLog(dataFiles, rowScan.fileId))
  /\ rowScan' = scanData(rowScan, dataFiles[rowScan.fileId][rowScan.pos])
  /\ UNCHANGED <<sqliteFile, csvFilesJson, dataFiles, uploadsDir, clock, up, reg, resp>>

\* the 'end' event
ScanEnd ==
  /\ rowScan.pc = "reading"
  /\ rowScan.pos > Len(RowsInLog(dataFiles, rowScan.fileId))
  /\ rowScan' = scanEnd(rowScan)
  /\ UNCHANGED <<sqliteFile, csvFilesJson, dataFiles, uploadsDir, clock, up, reg, resp>>

\* the 'error' event: a read of the log fails
ScanError ==
  /\ rowScan.pc = "reading"
  /\ rowScan' = scanError(rowScan)
  /\ UNCHANGED <<sqliteFile, csvFilesJson, dataFiles, uploadsDir, clock, up, reg, resp>>

ScanNext ==
  \/ rowScan.pc # "reading" /\ SharedOpen
  \/ rowScan.pc # "reading" /\ clock < MaxCacheFiles /\ SharedInsertFile(1)
  \/ \E f \in FileIds : rowScan.pc # "reading" /\ SharedInsertData(f)
  \/ rowScan.pc # "reading" /\ SharedTimerFire
  \/ \E f \in FileIds, k \in RowNumbers : ScanStart(f, k)
  \/ ScanData
  \/ ScanEnd
  \/ ScanError

ScanSpec == Init /\ [][ScanNext]_vars /\ WF_vars(ScanData) /\ WF_vars(ScanEnd)

(***************************************************************************)
(* CorruptSpec: a file is ingested into the file database; afterwards      *)
(* lines of its log become corrupt (a torn write, a damaged block: text on *)
(* which JSON.parse throws) and the file is read through the routes.       *)
(***************************************************************************)
\* line i of the log of a file is no longer valid JSON
LogCorrupted(fileId, i) ==
  /\ up.pc = "idle"
  /\ Has(dataFiles, fileId)
  /\ i \in 1..Len(dataFiles[fileId])
  /\ LineParses(dataFiles[fileId][i])
  /\ dataFiles' = [dataFiles EXCEPT ![fileId][i] = MalformedLine]
  /\ resp' = NoResp
  /\ UNCHANGED <<sqliteFile, csvFilesJson, uploadsDir, clock, up, reg, rowScan>>

CorruptNext ==
  \/ \E c \in {CsvScenario, CsvLong} : clock = 0 /\ UploadStart(1, 60 * BytesPerMB, c)
  \/ UploadStep
  \/ UploadComplete
  \/ TimerFire
  \/ \E i \in 1..(MaxRowNumber + 1) : LogCorrupted(1, i)
  \/ \E p \in Pages, n \in PageSizes : up.pc = "idle" /\ GetPage(1, 1, p, n)
  \/ \E k \in RowNumbers : up.pc = "idle" /\ GetRow(1, 1, k)

CorruptSpec == Init /\ [][CorruptNext]_vars

(***************************************************************************)
(* CloseSpec: uploads into either store that end in the complete callback  *)
(* or in the error callback of the parser, the flush timer firing or not.  *)
(***************************************************************************)
CloseNext ==
  \/ \E u \in UserIds, b \in UploadSizes, c \in {CsvHeaderOnly, CsvOne, CsvScenario, CsvLong} :
       clock < MaxAccountUploads /\ UploadStart(u, b, c)
  \/ UploadStep
  \/ UploadComplete
  \/ UploadParseError
  \/ TimerFire

CloseSpec == Init /\ [][CloseNext]_vars

(***************************************************************************)
(* WriteFailSpec: an upload into the file database during which a write of *)
(* the log by the flush timer fails.  The exception leaves the callback;   *)
(* no handler for uncaught exceptions is installed (index.ts), so the      *)
(* process ends, unless the embedding keeps it alive: both are modelled.   *)
(***************************************************************************)
TimerFireWriteFails(exits) ==
  /\ up.pc = "parsing"
  /\ up.dbType = FILEDB
  /\ up.mem.writeTimer /\ ~up.mem.timerRan
  /\ DOMAIN up.mem.pendingWrites # {}
  /\ up' = IF exits THEN [Idle EXCEPT !.writeFailed = TRUE]
           ELSE [up EXCEPT !.mem = timerCallbackThrows(Session.fs).mem, !.writeFailed = TRUE]
  /\ resp' = NoResp
  /\ UNCHANGED <<sqliteFile, csvFilesJson, dataFiles, uploadsDir, clock, reg, rowScan>>

WriteFailNext ==
  \/ \E u \in UserIds, c \in {CsvOne, CsvScenario, CsvQuoted, CsvLong} :
       clock < MaxAccountUploads /\ UploadStart(u, 60 * BytesPerMB, c)
  \/ UploadStep
  \/ UploadComplete
  \/ TimerFire
  \/ \E exits \in BOOLEAN : TimerFireWriteFails(exits)

WriteFailSpec == Init /\ [][WriteFailNext]_vars

(***************************************************************************)
(* RetrySpec: an upload into SQLite in which a run fails in the middle of  *)
(* the loop that inserts a full batch.                                     *)
(***************************************************************************)
UploadStepInsertFails(j) ==
  /\ up.pc = "parsing"
  /\ up.dbType = SQLITE
  /\ up.pos <= Len(up.content)
  /\ ~up.isFirstRow
  /\ Len(up.batch) + 1 >= batchSize
  /\ j \in 2..(Len(up.batch) + 1)
  /\ LET r == stepRowThrowsAt(Session, up, up.content[up.pos], j) IN
     /\ sqliteFile' = r.s.image
     /\ up' = [up EXCEPT !.pos = @ + 1, !.isFirstRow = r.isFirstRow, !.batch = r.batch,
                         !.rowCount = r.rowCount, !.db = r.s.db, !.writeFailed = TRUE]
  /\ resp' = NoResp
  /\ UNCHANGED <<csvFilesJson, dataFiles, uploadsDir, clock, reg, rowScan>>

RetryNext ==
  \/ \E u \in UserIds, c \in Contents :
       clock < MaxAccountUploads /\ UploadStart(u, 1 * BytesPerMB, c)
  \/ UploadStep
  \/ \E j \in 2..(MaxRowNumber + 1) : UploadStepInsertFails(j)
  \/ UploadComplete

RetrySpec == Init /\ [][RetryNext]_vars

(***************************************************************************)
(* ProgressSpec: one upload of a size whose progress estimate is reported, *)
(* each flushed batch reading the clock.                                   *)
(***************************************************************************)
ProgressNext ==
  \/ \E u \in UserIds, b \in ProgressSizes, c \in Contents : clock = 0 /\ UploadStart(u, b, c)
  \/ UploadStep
  \/ UploadComplete
  \/ TimerFire

ProgressSpec == Init /\ [][ProgressNext]_vars

(***************************************************************************)
(* Properties.  A response in resp was computed from the files as they are *)
(* in the same state: every action that changes a file replaces resp.      *)
(***************************************************************************)
OwnsFile(u, id) ==
  \/ Has(sqliteFile.csv_files, id) /\ sqliteFile.csv_files[id].user_id = u
  \/ Has(csvFilesJson, id) /\ csvFilesJson[id].user_id = u

OtherOwnsFile(u, id) == \E v \in UserIds \ {u} : OwnsFile(v, id)

RowsInRecordStore(db, id) == SelectSeq(db.csv_data, LAMBDA r : r.file_id = id)

StoredRows(dbType, id) ==
  IF dbType = SQLITE THEN RowsInRecordStore(sqliteFile, id) ELSE RowsInLog(dataFiles, id)

DataRows(rows) == SelectSeq(rows, LAMBDA r : r.is_header = 0)

HeaderRows(rows) == SelectSeq(rows, LAMBDA r : r.is_header = 1)

\* C1: no two existing csv_files records have the same id, the records of the
\* SQLite database and those of the file database counted together (within one
\* store the records are keyed by id).
C1_IdsUniqueAcrossStores ==
  DOMAIN sqliteFile.csv_files \cap DOMAIN csvFilesJson = {}

\* C2: a getPage or getRow of user U on an id under which only other users own
\* a file answers 404 and carries none of the file's headers or rows, in
\* whichever store the file is.
C2_ForeignFileNotFound ==
  (/\ resp.req.op \in {"getPage", "getRow"}
   /\ OtherOwnsFile(resp.req.userId, resp.req.fileId)
   /\ ~OwnsFile(resp.req.userId, resp.req.fileId))
    => (resp.status = 404 /\ resp.headers = <<>> /\ resp.data = <<>>)

\* C3: a delete by user U leaves every file of every other user as it was: its
\* csv_files record, its rows (csv_data rows or log) and its uploaded file; and
\* when U owns no file with the id, the delete answers 404 and changes no file.
C3_DeleteSparesOthers ==
  [][\A u \in UserIds, f \in FileIds :
       DeleteFile(u, f) =>
         /\ \A id \in DOMAIN sqliteFile.csv_files :
              sqliteFile.csv_files[id].user_id # u =>
                /\ Has(sqliteFile'.csv_files, id)
                /\ sqliteFile'.csv_files[id] = sqliteFile.csv_files[id]
                /\ RowsInRecordStore(sqliteFile', id) = RowsInRecordStore(sqliteFile, id)
                /\ Has(uploadsDir, sqliteFile.csv_files[id].filename)
                     => Has(uploadsDir', sqliteFile.csv_files[id].filename)
         /\ \A id \in DOMAIN csvFilesJson :
              csvFilesJson[id].user_id # u =>
                /\ Has(csvFilesJson', id)
                /\ csvFilesJson'[id] = csvFilesJson[id]
                /\ RowsInLog(dataFiles', id) = RowsInLog(dataFiles, id)
                /\ Has(uploadsDir, csvFilesJson[id].filename)
                     => Has(uploadsDir', csvFilesJson[id].filename)
         /\ ~OwnsFile(u, f) =>
              /\ resp'.status = 404
              /\ UNCHANGED <<sqliteFile, csvFilesJson, dataFiles, uploadsDir>>
    ]_vars

\* C4: after a delete of the owner has answered 200, the file it was asked to
\* delete (the owner's file with that id, the SQLite one first) has no
\* csv_files record, no rows and no uploaded file, and a getPage of the owner
\* on the id answers 404.
C4_DeleteRemovesFile ==
  [][\A u \in UserIds, f \in FileIds :
       (DeleteFile(u, f) /\ resp'.status = 200) =>
         /\ IF Has(sqliteFile.csv_files, f) /\ sqliteFile.csv_files[f].user_id = u
            THEN /\ ~Has(sqliteFile'.csv_files, f)
                 /\ RowsInRecordStore(sqliteFile', f) = <<>>
                 /\ ~Has(uploadsDir', sqliteFile.csv_files[f].filename)
            ELSE /\ ~Has(csvFilesJson', f)
                 /\ ~Has(dataFiles', f)
                 /\ ~Has(uploadsDir', csvFilesJson[f].filename)
         /\ getPage(sqliteFile', csvFilesJson', dataFiles', u, f, 1, MaxPageSize).status = 404
    ]_vars

\* the parsed records of the uploaded file behind a getPage or getRow response
SourceOf(req) ==
  LET found == lookupFile(sqliteFile, csvFilesJson, req.fileId, req.userId).file IN
  IF found # <<>> /\ Has(uploadsDir, found[1].filename)
  THEN <<uploadsDir[found[1].filename]>> ELSE <<>>

\* C5: after the ingestion of a file with a header and N records, page 1 with
\* pageSize = N + 1 carries N rows, and in row i the value under the j-th
\* header is the j-th field of the i-th record, for every field of the record.
C5_FieldsRoundTrip ==
  (/\ resp.req.op = "getPage"
   /\ resp.status = 200
   /\ up.pc = "idle"
   /\ SourceOf(resp.req) # <<>>
   /\ Len(SourceOf(resp.req)[1]) >= 2
   /\ resp.req.page = 1
   /\ resp.req.pageSize = Len(SourceOf(resp.req)[1]))
    => LET content == SourceOf(resp.req)[1] IN
       /\ resp.headers = content[1]
       /\ Len(resp.data) = Len(content) - 1
       /\ \A i \in 1..Len(resp.data) : \A j \in 1..Len(content[i + 1]) :
            /\ j <= Len(resp.headers)
            /\ resp.data[i].cols[resp.headers[j]] = content[i + 1][j]

\* C6: once an upload of a header and N records has answered 201, the store it
\* chose holds for the file one header row, numbered 0, and N data rows, the
\* k-th of them numbered k and holding the k-th record.
C6_RowsNumberedInOrder ==
  (resp.req.op = "upload" /\ resp.status = 201)
    => LET rows == StoredRows(resp.dbType, resp.fileId)
           content == resp.req.content IN
       /\ Len(HeaderRows(rows)) = 1
       /\ HeaderRows(rows)[1].row_number = 0
       /\ Len(DataRows(rows)) = Len(content) - 1
       /\ \A k \in 1..Len(DataRows(rows)) :
            /\ DataRows(rows)[k].row_number = k
            /\ DataRows(rows)[k].row_data = encodeRow(content[k + 1])

\* the row numbers the upload in flight has handed to INSERT INTO csv_data
Appended ==
  (IF up.isFirstRow THEN {} ELSE {0}) \cup (1..(up.rowCount - Len(up.batch)))

Pending(k) ==
  /\ Has(up.mem.pendingWrites, up.fileId)
  /\ \E i \in 1..Len(up.mem.pendingWrites[up.fileId]) :
       up.mem.pendingWrites[up.fileId][i].row_number = k

Flushed(k) ==
  \E i \in 1..Len(RowsInLog(dataFiles, up.fileId)) :
    RowsInLog(dataFiles, up.fileId)[i].row_number = k

\* C7: on the FileDatabase instance of an upload that has not cleared a row
\* cache, every row number k appended so far is returned by the row read with
\* number k and the fields of the appended record, whether the row is still in
\* the pending buffer or already in the log.
C7_ReadAfterAppend ==
  (up.pc = "parsing" /\ up.dbType = FILEDB /\ ~up.mem.cleared)
    => \A k \in Appended :
         LET r == getAsyncRow(Session.fs, up.fileId, k) IN
         /\ r.settled
         /\ r.result # <<>>
         /\ r.result[1].row_number = k
         /\ parseRowData(r.result[1].row_data) = up.content[k + 1]

\* a flushed row and a pending row, both returned
C7_PendingAndFlushedRead ==
  /\ up.pc = "parsing" /\ up.dbType = FILEDB /\ ~up.mem.cleared
  /\ \E k \in Appended :
       /\ Pending(k) /\ ~Flushed(k)
       /\ getAsyncRow(Session.fs, up.fileId, k).result # <<>>
       /\ parseRowData(getAsyncRow(Session.fs, up.fileId, k).result[1].row_data) = up.content[k + 1]
  /\ \E k \in Appended :
       /\ Flushed(k) /\ ~Pending(k)
       /\ getAsyncRow(Session.fs, up.fileId, k).result # <<>>

\* C8: selectDatabase answers SQLite for every size up to 50 MB and the file
\* database for every size above it; 49 and 50 give SQLite, 51 the file
\* database (sizes in hundredths of a megabyte).
C8_SelectorThreshold ==
  /\ selectDatabase(49 * 100) = SQLITE
  /\ selectDatabase(50 * 100) = SQLITE
  /\ selectDatabase(51 * 100) = FILEDB
  /\ resp.req.op = "selectDatabase" =>
       /\ resp.req.fileSizeMB <= 50 * 100 => resp.dbType = SQLITE
       /\ resp.req.fileSizeMB > 50 * 100 => resp.dbType = FILEDB

\* the selector has answered at the threshold itself
C8_AtThreshold ==
  /\ resp.req.op = "selectDatabase"
  /\ resp.req.fileSizeMB = 50 * 100
  /\ resp.dbType = SQLITE

\* C9: an upload of more than 50 * 1024 * 1024 bytes is given the file database
\* and an upload of at most that many bytes SQLite.
C9_UploadRoutedByByteSize ==
  resp.req.op = "createOptimizedDatabase" =>
    /\ resp.req.bytes > 50 * 1024 * 1024 => resp.dbType = FILEDB
    /\ resp.req.bytes <= 50 * 1024 * 1024 => resp.dbType = SQLITE

\* the data rows the backend of a getPage response holds for the file
LiveCount(dbType, id) == Len(DataRows(StoredRows(dbType, id)))

\* C10: the totalRows of a getPage response is the row_count of the csv_files
\* record when that is not zero, and the number of data rows the backend holds
\* for the file otherwise.
C10_TotalRows ==
  (resp.req.op = "getPage" /\ resp.status = 200)
    => LET file == lookupFile(sqliteFile, csvFilesJson, resp.req.fileId, resp.req.userId).file[1] IN
       resp.fileTotalRows =
         <<IF file.row_count # 0 THEN file.row_count ELSE LiveCount(resp.dbType, resp.req.fileId)>>

\* the data lines of the log of a file, in the order of the log
LogDataRows(id) == DataRows(RowsInLog(dataFiles, id))

\* C11: a page read of a file of the file database with pageSize n and offset
\* o carries at most n rows; they are the data rows at positions o+1 .. o+n of
\* the file taken in row-number order, each row number larger than the one
\* before, and fewer than n only when the file has no more than o+n data rows.
C11_StreamedPage ==
  (resp.req.op = "getPage" /\ resp.status = 200 /\ resp.dbType = FILEDB)
    => LET offset == (resp.req.page - 1) * resp.req.pageSize
           ds == SortByRowNumber(LogDataRows(resp.req.fileId))
           left == IF Len(ds) > offset THEN Len(ds) - offset ELSE 0 IN
       /\ Len(resp.data) = IF left < resp.req.pageSize THEN left ELSE resp.req.pageSize
       /\ \A i \in 1..Len(resp.data) :
            /\ resp.data[i].rowNumber = ds[offset + i].row_number
            /\ resp.data[i].cols = rowObject(resp.headers, parseRowData(ds[offset + i].row_data))
       /\ \A i \in 1..(Len(resp.data) - 1) : resp.data[i].rowNumber < resp.data[i + 1].rowNumber

\* the header a read of the file answers with, as the stores are now
HeaderNow(userId, fileId) ==
  getPage(sqliteFile, csvFilesJson, dataFiles, userId, fileId, 1, 1)

\* C12: once the upload of a file has answered 201, a header read of the file
\* answers 200 with the first parsed record of the upload, and so does every
\* getPage and getRow of the file made while no upload is in flight: the reads
\* change no file, so any sequence of them returns that same header.
C12_HeaderStable ==
  /\ (resp.req.op = "upload" /\ resp.status = 201)
       => /\ HeaderNow(resp.req.userId, resp.fileId).status = 200
          /\ HeaderNow(resp.req.userId, resp.fileId).headers = resp.req.content[1]
  /\ (/\ resp.req.op \in {"getPage", "getRow"}
      /\ resp.status = 200
      /\ up.pc = "idle"
      /\ SourceOf(resp.req) # <<>>
      /\ Len(SourceOf(resp.req)[1]) >= 2)
       => /\ resp.headers = SourceOf(resp.req)[1][1]
          /\ HeaderNow(resp.req.userId, resp.req.fileId).headers = resp.headers

\* a read of the id by any holder of a token answers 404, or answers with a
\* file that another user owns
NotReturned(db, json, logs, u, f) ==
  \A v \in UserIds :
    /\ LET r == getPage(db, json, logs, v, f, 1, MaxPageSize) IN
         r.status = 200 =>
           LET file == lookupFile(db, json, f, v).file[1] IN file.user_id # u
    /\ LET r == getRow(db, json, logs, v, f, 1) IN
         r.status = 200 =>
           LET file == lookupFile(db, json, f, v).file[1] IN file.user_id # u

\* C13: when DELETE /profile of user U, or DELETE /users/U of the
\* administrator, has answered 200, neither store holds a csv_files record or
\* a row of a file that U owned, and no getPage or getRow of any user on the
\* id of such a file returns it.
C13_DeletedUserFilesGone ==
  [][\A u \in UserIds :
       ((DeleteProfile(u) \/ \E a \in UserIds : DeleteUser(a, u)) /\ resp'.status = 200) =>
         \A f \in FileIds :
           /\ (Has(sqliteFile.csv_files, f) /\ sqliteFile.csv_files[f].user_id = u) =>
                /\ ~Has(sqliteFile'.csv_files, f)
                /\ RowsInRecordStore(sqliteFile', f) = <<>>
           /\ (Has(csvFilesJson, f) /\ csvFilesJson[f].user_id = u) =>
                /\ ~Has(csvFilesJson', f)
                /\ ~Has(dataFiles', f)
           /\ OwnsFile(u, f) => NotReturned(sqliteFile', csvFilesJson', dataFiles', u, f)
    ]_vars

StoredFile(dbType, id) ==
  IF dbType = SQLITE THEN sqlGetFileById(sqliteFile, id)
  ELSE IF Has(csvFilesJson, id) THEN <<csvFilesJson[id]>> ELSE <<>>

\* C15: when an upload has answered 201 with rowCount N, the store it chose
\* holds on disk the header row and each of the N data rows of the parsed
\* file (db.sqlite, or the log of the file: nothing is left in the batch or in
\* the pending buffer), and the row_count of the csv_files record is N.
C15_SuccessMeansDurable ==
  (resp.req.op = "upload" /\ resp.status = 201)
    => LET rows == StoredRows(resp.dbType, resp.fileId)
           content == resp.req.content
           OnDisk(r) == \E i \in 1..Len(rows) : rows[i] = r IN
       /\ resp.rowCount = Len(content) - 1
       /\ OnDisk(Row(resp.fileId, 0, encodeRow(content[1]), 1))
       /\ \A k \in 1..resp.rowCount : OnDisk(Row(resp.fileId, k, encodeRow(content[k + 1]), 0))
       /\ StoredFile(resp.dbType, resp.fileId) # <<>>
       /\ StoredFile(resp.dbType, resp.fileId)[1].row_count = resp.rowCount

\* C16: once a write of an upload has failed, no later step of the upload
\* writes a row, the rows written before the failure stay in db.sqlite, and
\* the upload does not end with 201.
C16_FailureStopsIngestion ==
  [][/\ UploadStepWriteFails => sqliteFile' = sqliteFile
     /\ (up.writeFailed /\ UploadStep) => sqliteFile' = sqliteFile
     /\ (up.writeFailed /\ UploadComplete) => resp'.status # 201
    ]_vars

\* C17: an upload whose file has no data row (no record at all, or the header
\* record alone) answers 400, in either store, whatever arrives while it is
\* parsed; it never answers 201.
C17_NoDataRowsRejected ==
  (resp.req.op = "upload" /\ Len(resp.req.content) <= 1)
    => (resp.status = 400 /\ resp.rowCount = 0)

\* a header-only upload into the file database has been rejected
C17_HeaderOnlyRejected ==
  /\ resp.req.op = "upload"
  /\ resp.req.content = CsvHeaderOnly
  /\ resp.dbType = FILEDB
  /\ resp.status = 400

NameTaken(n) == \E i \in DOMAIN sqliteFile.users : sqliteFile.users[i].username = n

\* C18: POST /register with a username that a row of users already has
\* answers 409; the INSERT changes no row of the instance's database and
\* db.sqlite is not written: the users table and the rest of the image are
\* as before the attempt.
C18_DuplicateUsernameConflict ==
  [][\A n \in Usernames :
       (Register(n) /\ NameTaken(n)) =>
         /\ resp'.status = 409
         /\ sqlInsertUser(sqliteFile, n) = <<>>
         /\ sqliteFile'.users = sqliteFile.users
         /\ sqliteFile' = sqliteFile
    ]_vars

\* a registration of a taken username has been answered with the conflict
C18_ConflictAnswered ==
  /\ resp.req.op = "register"
  /\ resp.status = 409
  /\ NameTaken(resp.req.username)

\* a read of user u on id f is answered from the given store with a file of
\* u, and the upload of the file has completed with its row_count set to the
\* number of records
IngestedIn(u, f, dbType) ==
  LET found == lookupFile(sqliteFile, csvFilesJson, f, u)
      source == SourceOf(RowRequest(u, f, 0)) IN
  /\ found.file # <<>>
  /\ found.dbType = dbType
  /\ found.file[1].user_id = u
  /\ source # <<>>
  /\ Len(source[1]) >= 2
  /\ found.file[1].row_count = Len(source[1]) - 1

RowOutcome(u, f, k) ==
  LET r == getRow(sqliteFile, csvFilesJson, dataFiles, u, f, k) IN
  [status |-> r.status, data |-> [i \in 1..Len(r.data) |-> r.data[i].cols]]

\* C19: when one file has been ingested into SQLite and a file of the same
\* content into the file database, GET /:id/row/k answers the same for both,
\* for every k >= 0: the same status and, when a row is found, the same values
\* under the same headers.
C19_RowReadSameInBothStores ==
  up.pc = "idle" =>
    \A u1 \in UserIds, u2 \in UserIds, f1 \in FileIds, f2 \in FileIds :
      (/\ IngestedIn(u1, f1, SQLITE)
       /\ IngestedIn(u2, f2, FILEDB)
       /\ SourceOf(RowRequest(u1, f1, 0)) = SourceOf(RowRequest(u2, f2, 0)))
        => \A k \in RowNumbers : RowOutcome(u1, f1, k) = RowOutcome(u2, f2, k)

ListedIds(fileIds) == {fileIds[i] : i \in 1..Len(fileIds)}

InSqliteOf(u, id) == Has(sqliteFile.csv_files, id) /\ sqliteFile.csv_files[id].user_id = u

InFileDbOf(u, id) == Has(csvFilesJson, id) /\ csvFilesJson[id].user_id = u

\* C20: a batch delete of user U for a list of ids removes, for each listed id
\* under which U owns a file, that file from the store that holds it (the
\* SQLite one when both stores hold one): its csv_files record, its rows and
\* its uploaded file; deletedCount is the number of those ids; and every file
\* of another user, listed or not, is as before.
C20_BatchDeleteRemovesOwned ==
  [][\A u \in UserIds, ids \in IdLists :
       (BatchDelete(u, ids) /\ ids # <<>>) =>
         /\ \A id \in ListedIds(ids) :
              IF InSqliteOf(u, id)
              THEN /\ ~Has(sqliteFile'.csv_files, id)
                   /\ RowsInRecordStore(sqliteFile', id) = <<>>
                   /\ ~Has(uploadsDir', sqliteFile.csv_files[id].filename)
              ELSE InFileDbOf(u, id) =>
                     /\ ~Has(csvFilesJson', id)
                     /\ ~Has(dataFiles', id)
                     /\ ~Has(uploadsDir', csvFilesJson[id].filename)
         /\ resp'.deletedCount = Cardinality({id \in ListedIds(ids) : OwnsFile(u, id)})
         /\ \A id \in DOMAIN sqliteFile.csv_files :
              sqliteFile.csv_files[id].user_id # u =>
                /\ Has(sqliteFile'.csv_files, id)
                /\ sqliteFile'.csv_files[id] = sqliteFile.csv_files[id]
                /\ RowsInRecordStore(sqliteFile', id) = RowsInRecordStore(sqliteFile, id)
                /\ Has(uploadsDir, sqliteFile.csv_files[id].filename)
                     => Has(uploadsDir', sqliteFile.csv_files[id].filename)
         /\ \A id \in DOMAIN csvFilesJson :
              csvFilesJson[id].user_id # u =>
                /\ Has(csvFilesJson', id)
                /\ csvFilesJson'[id] = csvFilesJson[id]
                /\ RowsInLog(dataFiles', id) = RowsInLog(dataFiles, id)
                /\ Has(uploadsDir, csvFilesJson[id].filename)
                     => Has(uploadsDir', csvFilesJson[id].filename)
    ]_vars

\* C21: the list of user U holds each file that U owns in SQLite and each file
\* that U owns in the file database exactly once, holds nothing else, and is
\* ordered newest upload first.
C21_ListIsExact ==
  (resp.req.op = "list" /\ resp.status = 200)
    => LET u == resp.req.userId
           inSqlite == {listedFile(f) : f \in sqlFilesOfUser(sqliteFile, u)}
           inFileDb == {listedFile(f) : f \in fdbFilesOfUser(csvFilesJson, u)}
           Times(x) == Cardinality({i \in 1..Len(resp.files) : resp.files[i] = x}) IN
       /\ \A x \in inSqlite \cup inFileDb : Times(x) = 1
       /\ \A i \in 1..Len(resp.files) : resp.files[i] \in inSqlite \cup inFileDb
       /\ \A i \in 1..(Len(resp.files) - 1) :
            resp.files[i].upload_date > resp.files[i + 1].upload_date

\* keyword occurs in value as a substring
Contains(value, keyword) ==
  \E i \in 0..(Len(value) - Len(keyword)) : SubSeq(value, i + 1, i + Len(keyword)) = keyword

\* C22: a page read with a keyword filter on a column returns only rows whose
\* value in that column contains the keyword.
C22_FilteredPageMatches ==
  (resp.req.op = "getPageFiltered" /\ resp.status = 200)
    => \A i \in 1..Len(resp.data) :
         /\ resp.req.filterColumn \in DOMAIN resp.data[i].cols
         /\ Contains(resp.data[i].cols[resp.req.filterColumn], resp.req.filterKeyword)

Increasing(rows) == \A i \in 1..(Len(rows) - 1) : rows[i].row_number < rows[i + 1].row_number

\* C23: the log of the file that an upload into the file database is
\* ingesting, and has ingested when it answers, holds rows of strictly
\* increasing row number, each the record of that number in the source.
C23_LogInSourceOrder ==
  /\ (up.pc = "parsing" /\ up.dbType = FILEDB)
       => LET rows == RowsInLog(dataFiles, up.fileId) IN
          /\ Increasing(rows)
          /\ \A i \in 1..Len(rows) :
               rows[i].row_data = encodeRow(up.content[rows[i].row_number + 1])
  /\ (resp.req.op = "upload" /\ resp.dbType = FILEDB)
       => LET rows == RowsInLog(dataFiles, resp.fileId) IN
          /\ Increasing(rows)
          /\ \A i \in 1..Len(rows) :
               rows[i].row_data = encodeRow(resp.req.content[rows[i].row_number + 1])

\* the pending buffer of the file of the upload in flight
PendingRows ==
  IF Has(up.mem.pendingWrites, up.fileId) THEN up.mem.pendingWrites[up.fileId] ELSE <<>>

CountOf(rows, k) == Cardinality({i \in 1..Len(rows) : rows[i].row_number = k})

\* C24: while a file of the file database that has not been deleted is
\* ingested, every row appended so far is once in the pending buffer of the
\* instance or once in the log of the file, and not in both; and when the
\* upload has saved and closed its instance, every row it appended is in the
\* log exactly once.
C24_RowPendingOrFlushed ==
  /\ [](\A k \in Appended :
          (up.pc = "parsing" /\ up.dbType = FILEDB /\ Has(csvFilesJson, up.fileId))
            => CountOf(PendingRows, k) + CountOf(RowsInLog(dataFiles, up.fileId), k) = 1)
  /\ [][(UploadComplete /\ up.dbType = FILEDB /\ Has(csvFilesJson, up.fileId))
          => \A k \in 0..up.rowCount :
               (k > 0 \/ ~up.isFirstRow) => CountOf(RowsInLog(dataFiles', up.fileId), k) = 1
       ]_vars

\* C25: the id that an upload into the file database is given is the id of no
\* file that csv_files.json records at that time; the insert leaves the
\* record of every such file as it was, and the file that gets the id has no
\* log yet.
C25_MintedIdIsFresh ==
  [][(up.pc = "idle" /\ up'.pc = "parsing" /\ up'.dbType = FILEDB) =>
       /\ ~Has(csvFilesJson, up'.fileId)
       /\ \A id \in DOMAIN csvFilesJson :
            Has(csvFilesJson', id) /\ csvFilesJson'[id] = csvFilesJson[id]
       /\ ~Has(dataFiles, up'.fileId)
    ]_vars

\* C26: when the upload of a file into the file database finishes after a
\* delete of that file has finished (the delete has removed the uploaded file
\* that the upload is parsing), csv_files.json holds no record with the id and
\* the id has no log.
C26_DeletedStaysDeleted ==
  [][(UploadComplete /\ up.dbType = FILEDB /\ ~Has(uploadsDir, up.filename)) =>
       /\ ~Has(csvFilesJson', up.fileId)
       /\ ~Has(dataFiles', up.fileId)
    ]_vars

\* C27: when a registration and an upload into SQLite hold instances that
\* were opened from the same db.sqlite and each runs a statement, db.sqlite
\* after a run is the export of the instance that made it: it holds that
\* instance's rows, and none of the rows that the other instance has written
\* since this one was opened.
C27_LastWriterWins ==
  [][/\ (RegisterRun /\ resp'.status = 201) =>
          /\ sqliteFile' = sqlInsertUser(reg.db, reg.username)[1]
          /\ sqlGetUserByName(sqliteFile', reg.username) # <<>>
          /\ sqliteFile'.csv_files = reg.db.csv_files
          /\ sqliteFile'.csv_data = reg.db.csv_data
     /\ (UploadStep /\ up.dbType = SQLITE /\ up'.db # up.db) =>
          /\ sqliteFile' = up'.db
          /\ sqliteFile'.users = up.db.users
     /\ (UploadComplete /\ up.dbType = SQLITE) => sqliteFile'.users = up.db.users
    ]_vars

\* both instances were opened from the image without the file; the upload has
\* inserted its file record and the registration has written last: db.sqlite
\* holds the new user and no record of the file
C27_UploadWriteLost ==
  /\ up.pc = "parsing" /\ up.dbType = SQLITE
  /\ Has(up.db.csv_files, up.fileId)
  /\ resp.req.op = "register" /\ resp.status = 201
  /\ sqlGetUserByName(sqliteFile, resp.req.username) # <<>>
  /\ ~Has(sqliteFile.csv_files, up.fileId)

\* the largest threshold that the buffer of a file of Contents can reach: the
\* rows of the longest file.  A buffer that stays below any smaller threshold
\* stays below this one.
LargestThreshold == Len(CsvLong)

\* C28: there is a size at which the pending buffer of a file is flushed
\* without the timer: after every append the buffer of the file being
\* ingested holds fewer rows than the threshold.
C28_BufferBelowThreshold ==
  (up.pc = "parsing" /\ up.dbType = FILEDB) => Len(PendingRows) < LargestThreshold

\* C29: on the instance of an upload into the file database a flush timer is
\* armed whenever a pending buffer is not empty; the timer callback writes
\* every pending row to the log of its file; and a row in the pending buffer
\* is in the end in the log of its file through the timer alone, unless the
\* upload has closed the instance before.
C29_TimerFlushesPending ==
  /\ []((up.pc = "parsing" /\ up.dbType = FILEDB) =>
          \A id \in DOMAIN up.mem.pendingWrites :
            up.mem.pendingWrites[id] # <<>> => up.mem.writeTimer)
  /\ [][TimerFire =>
          /\ \A k \in RowNumbers : Pending(k) => CountOf(RowsInLog(dataFiles', up.fileId), k) >= 1
          /\ up'.mem.pendingWrites = EmptyMap
       ]_vars
  /\ \A k \in RowNumbers :
       (up.pc = "parsing" /\ up.dbType = FILEDB /\ Pending(k)) ~> (Flushed(k) \/ up.pc = "idle")

\* the timer has written the rows of the upload in flight: nothing is
\* pending, no timer is armed and the header is in the log
C29_FlushedByTimer ==
  /\ up.pc = "parsing" /\ up.dbType = FILEDB
  /\ ~up.mem.writeTimer
  /\ PendingRows = <<>>
  /\ Flushed(0)

\* the files whose pending buffer a step has emptied
FlushedFiles ==
  {f \in DOMAIN up.mem.pendingWrites :
     up.mem.pendingWrites[f] # <<>> /\ ~Has(up'.mem.pendingWrites, f)}

\* C30: a firing of a flush timer of a store that is ingesting several files
\* flushes the pending buffer of one file, the one whose appends armed it:
\* the buffer of every other file is as it was before the firing.
C30_TimerIsPerFile ==
  [][SharedTimerFire => Cardinality(FlushedFiles) <= 1]_vars

\* the shared instance and its data directory hold nothing of a file id
NothingOf(mem, logs, id) ==
  /\ ~Has(mem.csvFiles, id)
  /\ ~Has(mem.csvData, id)
  /\ ~Has(mem.pendingWrites, id)
  /\ ~Has(logs, id)

\* C31: after a file is deleted through a file database instance, the
\* instance holds no metadata, cache or pending-buffer entry for it and its
\* log file does not exist; a flush timer armed before the delete writes
\* nothing for the file when it fires, and a later append for the file id
\* does not recreate the log.
C31_DeleteLeavesNothing ==
  /\ [](up.pc = "shared" =>
          \A id \in FileIds :
            ~Has(up.mem.csvFiles, id) => NothingOf(up.mem, dataFiles, id))
  /\ [][\A f \in FileIds :
          /\ SharedDeleteFile(f) => NothingOf(up'.mem, dataFiles', f)
          /\ (SharedTimerFire /\ ~Has(up.mem.csvFiles, f)) => NothingOf(up'.mem, dataFiles', f)
          /\ SharedInsertDataDeleted(f) => NothingOf(up'.mem, dataFiles', f)]_vars

\* the only file of the instance was deleted while the flush timer was armed
C31_DeletedWithTimerArmed ==
  /\ up.pc = "shared"
  /\ clock = 1
  /\ ~Has(up.mem.csvFiles, 1)
  /\ up.mem.writeTimer

\* the rows of the row cache that the shared instance keeps for a file
CacheSize(mem, id) == IF Has(mem.csvData, id) THEN Cardinality(DOMAIN mem.csvData[id]) ELSE 0

\* the rows of a file in the pending buffer of an instance
PendingOf(mem, id) == IF Has(mem.pendingWrites, id) THEN mem.pendingWrites[id] ELSE <<>>

\* C32: the row cache of a file never holds more than maxMemoryRows rows; an
\* append that arrives when the cache holds exactly maxMemoryRows rows clears
\* the cache, and the appended row is added to the pending buffer all the
\* same: every row handed to the instance so far is in the pending buffer or
\* in the log of the file.
C32_CacheBounded ==
  /\ [](up.pc = "shared" => \A id \in FileIds : CacheSize(up.mem, id) <= maxMemoryRows)
  /\ [][\A f \in FileIds :
          SharedInsertData(f) =>
            LET k == SharedRows(f) IN
            /\ CacheSize(up.mem, f) = maxMemoryRows => CacheSize(up'.mem, f) = 0
            /\ CacheSize(up.mem, f) < maxMemoryRows => CacheSize(up'.mem, f) = CacheSize(up.mem, f) + 1
            /\ PendingOf(up'.mem, f) # <<>>
            /\ PendingOf(up'.mem, f)[Len(PendingOf(up'.mem, f))].row_number = k
            /\ \A j \in 0..k :
                 CountOf(PendingOf(up'.mem, f), j) + CountOf(RowsInLog(dataFiles', f), j) = 1
       ]_vars

\* a cache was cleared at the ceiling and the row that arrived is pending
C32_ClearedAtCeiling ==
  /\ up.pc = "shared"
  /\ up.mem.cleared
  /\ \E f \in FileIds :
       /\ CacheSize(up.mem, f) = 0
       /\ CountOf(PendingOf(up.mem, f), maxMemoryRows) = 1

\* C34: a single-row read of the file database that misses the row cache
\* always completes: the scan of the log that findRowInFile starts ends with
\* the promise resolved, with the matching row as soon as the row is found,
\* with null at the end of the file or on a read error.
C34_ScanCompletes ==
  /\ (rowScan.pc = "reading") ~> (rowScan.pc = "resolved")
  /\ [][(ScanData /\ rowScan'.result # <<>>) => rowScan'.pc = "resolved"]_vars

\* the well-formed data lines of the log of a file that carry a row number
Numbered(id, k) ==
  SelectSeq(WellFormed(RowsInLog(dataFiles, id)),
            LAMBDA r : r.file_id = id /\ r.is_header = 0 /\ r.row_number = k)

\* C33: a single-row read of a file of the file database for row number
\* k >= 1 answers with a row whose stored row_number is k, and with "Row not
\* found" when the log holds no row numbered k, also when the log has
\* malformed lines that the scan skips.
C33_RowReadByNumber ==
  (/\ resp.req.op = "getRow"
   /\ resp.dbType = FILEDB
   /\ resp.req.rowNumber >= 1)
    => LET id == resp.req.fileId
           k == resp.req.rowNumber IN
       IF Numbered(id, k) = <<>> THEN resp.status = 404
       ELSE /\ resp.status = 200
            /\ streamRow(dataFiles, id, k)[1].row_number = k
            /\ resp.data[1].cols
                 = rowObject(resp.headers, parseRowData(Numbered(id, k)[1].row_data))

\* the well-formed lines of the log of a file: its data lines, its header lines
GoodData(id) ==
  SelectSeq(WellFormed(RowsInLog(dataFiles, id)), LAMBDA r : r.file_id = id /\ r.is_header = 0)

GoodHeaders(id) ==
  SelectSeq(WellFormed(RowsInLog(dataFiles, id)), LAMBDA r : r.file_id = id /\ r.is_header = 1)

\* the page and single-row reads of the routes skip the malformed lines
RouteReadsSkipMalformed ==
  (resp.req.op \in {"getPage", "getRow"} /\ resp.dbType = FILEDB)
    => LET id == resp.req.fileId IN
       /\ resp.status = 200 =>
            resp.headers = IF GoodHeaders(id) = <<>> THEN <<>>
                           ELSE parseRowData(GoodHeaders(id)[1].row_data)
       /\ resp.req.op = "getPage" =>
            /\ resp.status = 200
            /\ LET rows == Slice(GoodData(id), (resp.req.page - 1) * resp.req.pageSize,
                                 resp.req.pageSize) IN
               /\ Len(resp.data) = Len(rows)
               /\ \A i \in 1..Len(rows) :
                    /\ resp.data[i].rowNumber = rows[i].row_number
                    /\ resp.data[i].cols = rowObject(resp.headers, parseRowData(rows[i].row_data))
       /\ resp.req.op = "getRow" =>
            IF resp.req.rowNumber \in 1..Len(GoodData(id))
            THEN /\ resp.status = 200
                 /\ resp.data[1].cols
                      = rowObject(resp.headers,
                                  parseRowData(GoodData(id)[resp.req.rowNumber].row_data))
            ELSE resp.status = 404

\* findRowInFile skips the malformed lines: it returns the first well-formed
\* line with the row number, and null when there is none
FindRowSkipsMalformed ==
  \A id \in {i \in DOMAIN dataFiles : WellFormed(dataFiles[i]) # dataFiles[i]} :
  \A k \in RowNumbers :
    LET hits == SelectSeq(WellFormed(dataFiles[id]), LAMBDA r : r.row_number = k)
        found == findRowInFile(dataFiles, id, k) IN
    /\ found.settled
    /\ found.result = IF hits = <<>> THEN <<>> ELSE <<hits[1]>>

\* C35: on a log in which some lines are not valid JSON, the header, page and
\* single-row reads complete without error, skip the malformed lines and no
\* others, and return the well-formed rows before and after them.
C35_MalformedLinesSkipped ==
  /\ RouteReadsSkipMalformed
  /\ FindRowSkipsMalformed

TimerArmed(mem) == mem.writeTimer /\ ~mem.timerRan

\* C37: when a write of the log fails while the flush timer is firing, the
\* rows that were not written stay in the pending buffer, and the next
\* append arms a new timer, whose firing writes them.
C37_TimerSurvivesWriteFailure ==
  [][/\ (\E exits \in BOOLEAN : TimerFireWriteFails(exits)) =>
          /\ up'.pc = "parsing"
          /\ up'.mem.pendingWrites = up.mem.pendingWrites
     /\ (UploadStep /\ up.writeFailed
           /\ Len(PendingOf(up'.mem, up.fileId)) > Len(PendingOf(up.mem, up.fileId)))
          => TimerArmed(up'.mem)
    ]_vars

\* C38: each parsed data row is written to the store at most once during an
\* upload, also when an insert fails in the middle of the loop over a full
\* batch: the rows of the batch that were written before the failure are not
\* written again with later rows or at the completion of the stream.
C38_RowWrittenOnce ==
  \A id \in DOMAIN sqliteFile.csv_files : \A k \in 1..(MaxRowNumber + 1) :
    CountOf(DataRows(RowsInRecordStore(sqliteFile, id)), k) <= 1

ListedFileIds(userId) ==
  LET files == listFiles(sqliteFile, csvFilesJson, userId).files IN
  {files[i].id : i \in 1..Len(files)}

\* C39: once an upload has been answered 400 because its file has no data
\* row, the store it chose holds no csv_files record and no csv_data row of
\* the file id the upload was given, and the list of files of the uploading
\* user does not contain that id.
C39_RejectedUploadLeavesNothing ==
  (resp.req.op = "upload" /\ resp.status = 400) =>
    /\ StoredFile(resp.dbType, resp.fileId) = <<>>
    /\ StoredRows(resp.dbType, resp.fileId) = <<>>
    /\ resp.fileId \notin ListedFileIds(resp.req.userId)

ReportsNonDecreasing(reports) ==
  \A i, j \in 1..Len(reports) : i < j => reports[i] <= reports[j]

ProgressMonotone == [][UploadStep => ReportsNonDecreasing(up'.reports)]_vars

TwoReports == Len(up.reports) >= 2

\* C40: during one ingestion every progress report carries a percentage that
\* is at least the percentage of the report before it, and when the
\* ingestion completes with its rows stored the last percentage reported
\* is 100.
C40_ProgressMonotoneToComplete ==
  [][/\ UploadStep => ReportsNonDecreasing(up'.reports)
     /\ (UploadComplete /\ resp'.status = 201) =>
          (up.reports # <<>> /\ up.reports[Len(up.reports)] = 100)
    ]_vars

====
